---- MODULE Spec2Model ----
(***************************************************************************)
(* Model of the mindmap realtime reconciliation handlers                   *)
(* (useMindmapRealtimeNodes): the Document Store (elements.value, seen     *)
(* through its two computed projections nodes.value and edges.value), the  *)
(* local editing session, the renderer's data and caches, and the          *)
(* microtask / timer callbacks the handlers schedule.                      *)
(*                                                                         *)
(* JavaScript runs one macrotask to completion and then drains the         *)
(* microtask queue: nextTick callbacks are kept in the FIFO queue `micro`, *)
(* and no event, timer or user input runs while it is non-empty.           *)
(***************************************************************************)
EXTENDS Integers, Sequences, FiniteSets, TLC

VARIABLES
  nodes,              \* nodes.value: the node elements of elements.value, in array order
  edges,              \* edges.value: the edge elements of elements.value, in array order
  nodeCreationOrder,  \* nodeCreationOrder.value: Map id -> order
  selectedNode,       \* selectedNode.value?.id
  editingNode,        \* editingNode.value
  changedNodeIds,     \* changedNodeIds.value: Set of ids with uncommitted local changes
  timeSinceEditStart, \* Date.now() - editingStartTime.value, in ms, saturated at GraceMs
  isSaving,           \* isSaving.value
  rnodes,             \* renderer.nodes
  redges,             \* renderer.edges
  nodeSizeCache,      \* renderer.nodeSizeCache: Map id -> size
  positions,          \* renderer.positions: the ids that have a cached position
  editorContent,      \* content of the editing widget mounted for each node
  micro,              \* pending nextTick callbacks / promise continuations (FIFO)
  timers,             \* pending setTimeout callbacks
  nodeEditingUsers,   \* nodeEditingUsers.value: Map id -> the remote user editing the node
  badges,             \* the node groups that carry an .editing-badge
  awaiting,           \* continuations suspended on `await renderer.render()`
  editorInstance,     \* renderer.getEditorInstance(editingNode.value): the editing widget
  preservedState,     \* safeRender: what preserveEditorState returned
  restoring,          \* where the forced safeRender / restoreEditorState stands
  attempts,           \* restoreEditorState: polls that did not find the widget
  focusAttempts,      \* restoreEditorState: focus() retries made
  editorCalls,        \* log of the commands issued to the editing widget
  sizeWrites,         \* log of the size writes made by the deferred size callbacks
  calls,              \* log of the calls made to the layout engine
  snapshots,          \* saveSnapshot(true) requests issued, per event
  events,             \* per delivered event: its payload and what its handler saw
  eventsSeen,         \* number of remote events delivered so far
  open_docs,          \* RealTimeHandler.open_docs: Set of `${doctype}:${docname}`
  subscribing,        \* RealTimeHandler.subscribing
  emitted,            \* log of the messages RealTimeHandler.emit sent on the socket
  last                \* the handler or callback that ran last, and its outcome

storeVars    == <<nodes, edges, nodeCreationOrder>>
sessionVars  == <<selectedNode, editingNode, changedNodeIds, timeSinceEditStart, isSaving>>
rendererVars == <<rnodes, redges, nodeSizeCache, positions, editorContent>>
taskVars     == <<micro, timers, awaiting>>
ghostVars    == <<calls, snapshots, events>>
presenceVars == <<nodeEditingUsers, badges>>
editorVars   == <<editorInstance, preservedState, restoring, attempts, focusAttempts, editorCalls>>
reconcilerVars == <<storeVars, sessionVars, rendererVars, taskVars, ghostVars, presenceVars,
                    eventsSeen, last>>
socketVars   == <<open_docs, subscribing, emitted>>
vars == <<reconcilerVars, editorVars, sizeWrites, socketVars>>

----------------------------------------------------------------------------
(* Value domains *)

Null  == "null"
Undef == "undefined"

NodeIds == {"root", "n1", "n2", "n3"}
\* the nodes the local user selects or edits
EditIds == {"n1", "n2"}
\* the nodes remote events are about
RemoteIds == {"n1", "n2", "n3"}

\* number of remote events delivered in one run
MaxEvents == 1

\* the grace window after an editor is opened (ms)
GraceMs == 2000

Truthy(v) == v \notin {Undef, "", Null}

Node(id, label, completed, rect) ==
  [id |-> id, label |-> label, completed |-> completed, rect |-> rect]

Edge(s, t) == [source |-> s, target |-> t]

NoLast == [kind |-> "none"]

Ran(kind, evt, outcome) == [kind |-> kind, evt |-> evt, outcome |-> outcome]

----------------------------------------------------------------------------
(* Array helpers *)

\* Array.prototype.findIndex on the id (1-based; 0 when absent)
RECURSIVE FindIndexFrom(_, _, _)
FindIndexFrom(arr, id, i) ==
  IF i > Len(arr) THEN 0
  ELSE IF arr[i].id = id THEN i
  ELSE FindIndexFrom(arr, id, i + 1)

FindIndex(arr, id) == FindIndexFrom(arr, id, 1)

HasNode(arr, id) == FindIndex(arr, id) # 0

IdsOf(arr) == {arr[i].id : i \in 1..Len(arr)}

----------------------------------------------------------------------------
(* Inbound payloads *)

\* payload.entity_name / entityName and payload.modified_by / store.state.user.id
EntityName  == "doc"
CurrentUser == "me"

\* the data objects carried by the remote nodes that are enumerated
UpdateData ==
  { [label |-> "x", completed |-> Undef,  rect |-> Undef, order |-> Undef],
    [label |-> "y", completed |-> "true", rect |-> Undef, order |-> Undef],
    [label |-> "x", completed |-> Undef,  rect |-> "r2",  order |-> "o2"],
    [label |-> "",  completed |-> "false", rect |-> Undef, order |-> Undef] }

\* the parents a remote peer moves a node under (payload.edge.source); the
\* edge of a NodeUpdated is the moved node's own incoming edge
EdgeChoices(id) ==
  CASE id = "n1" -> {Undef, "root", "n2"}
    [] id = "n2" -> {Undef, "n1", "root"}
    [] OTHER     -> {Undef, "n1"}

UpdatePayload(entity, by, id, d, src) ==
  [entity_name |-> entity, modified_by |-> by, id |-> id,
   label |-> d.label, completed |-> d.completed, rect |-> d.rect,
   order |-> d.order, edge |-> src, node |-> "ok"]

\* what the optional reads (remoteNode.data?.label, ...) give when payload.node
\* has no data object
NoData == [label |-> Undef, completed |-> Undef, rect |-> Undef, order |-> Undef]

\* a NodeUpdated without payload.node, and one whose node is { id } only
MalformedUpdates ==
  { [UpdatePayload(EntityName, "peer", "n1", NoData, Undef) EXCEPT !.node = shape] :
      shape \in {"missing", "noData"} }

SomeData == CHOOSE d \in UpdateData : d.completed = Undef /\ d.rect = Undef

UpdatePayloads ==
  { UpdatePayload(EntityName, "peer", id, d, src) :
      <<id, d, src>> \in { t \in RemoteIds \X UpdateData \X (NodeIds \cup {Undef}) :
                             t[3] \in EdgeChoices(t[1]) } }
  \cup { UpdatePayload("other", "peer", "n1", SomeData, Undef),
         UpdatePayload(EntityName, CurrentUser, "n1", SomeData, Undef) }
  \cup MalformedUpdates

\* { ...remoteNode }
NodeOf(p) == Node(p.id, p.label, p.completed, p.rect)

----------------------------------------------------------------------------
(* Initial states: a saved document that has been laid out, either the     *)
(* chain root -> n1 -> n2 (n3 not created yet) or root -> n1 -> n2 -> n3   *)

NoEditor == "<unmounted>"

Chain2Nodes == << Node("root", "r", "false", "r1"),
                  Node("n1",   "a", "false", "r1"),
                  Node("n2",   "",  "false", "r1") >>

Chain2Edges == << Edge("root", "n1"), Edge("n1", "n2") >>

Chain3Nodes == Append(Chain2Nodes, Node("n3", "c", "false", "r1"))

Chain3Edges == Append(Chain2Edges, Edge("n2", "n3"))

InitStores == { [nodes |-> Chain2Nodes, edges |-> Chain2Edges],
                [nodes |-> Chain3Nodes, edges |-> Chain3Edges] }

\* no editing widget is mounted
Unmounted == [mounted |-> FALSE, docSize |-> 0, from |-> 0, to |-> 0, isFocused |-> FALSE]

\* preserveEditorState returned null
NoState == [nodeId |-> Null, isFocused |-> FALSE, from |-> 0, to |-> 0]

\* socket.ts, constructor of RealTimeHandler (lines 232-236)
RealTimeHandlerInit ==
  /\ open_docs = {}
  /\ subscribing = FALSE
  /\ emitted = <<>>

Init ==
  /\ sizeWrites = {}
  /\ RealTimeHandlerInit
  /\ editorInstance = Unmounted
  /\ preservedState = NoState
  /\ restoring = "none"
  /\ attempts = 0
  /\ focusAttempts = 0
  /\ editorCalls = <<>>
  /\ \E st \in InitStores :
       /\ nodes = st.nodes
       /\ edges = st.edges
       /\ nodeCreationOrder =
            [id \in NodeIds |-> IF id \in IdsOf(st.nodes) THEN "o1" ELSE Undef]
       /\ rnodes = st.nodes
       /\ redges = st.edges
       /\ nodeSizeCache = [id \in NodeIds |-> IF id \in IdsOf(st.nodes) THEN "r1" ELSE Undef]
       /\ positions = IdsOf(st.nodes)
       /\ editorContent = [id \in NodeIds |->
                             IF id \in IdsOf(st.nodes)
                             THEN st.nodes[FindIndex(st.nodes, id)].label ELSE NoEditor]
  /\ selectedNode = Null
  /\ editingNode = Null
  /\ changedNodeIds = {}
  /\ timeSinceEditStart = GraceMs
  /\ isSaving = FALSE
  /\ nodeEditingUsers = [id \in NodeIds |-> IF id = "n2" THEN "peer" ELSE Undef]
  /\ badges = {"n2"}
  /\ micro = <<>>
  /\ timers = {}
  /\ awaiting = {}
  /\ calls = {}
  /\ snapshots = [e \in 1..MaxEvents |-> 0]
  /\ events = [e \in 1..MaxEvents |-> [at |-> NoLast]]
  /\ eventsSeen = 0
  /\ last = NoLast

\* a macrotask (event, timer, user input) starts only on an empty microtask queue
Idle == micro = <<>>

----------------------------------------------------------------------------
(* The local edit path: it shares the session refs with the handlers       *)

Select(n) ==
  /\ Idle
  /\ editingNode = Null
  /\ selectedNode # n
  /\ HasNode(nodes, n)
  /\ selectedNode' = n
  /\ last' = NoLast
  /\ UNCHANGED <<storeVars, editingNode, changedNodeIds, timeSinceEditStart, isSaving,
                 rendererVars, taskVars, ghostVars, eventsSeen>>
  /\ UNCHANGED presenceVars
  /\ UNCHANGED editorVars
  /\ UNCHANGED <<sizeWrites, socketVars>>

StartEdit(n) ==
  /\ Idle
  /\ editingNode = Null
  /\ HasNode(nodes, n)
  /\ editorContent[n] # NoEditor
  /\ editingNode' = n
  /\ timeSinceEditStart' = 0
  /\ last' = NoLast
  /\ UNCHANGED <<storeVars, selectedNode, changedNodeIds, isSaving,
                 rendererVars, taskVars, ghostVars, eventsSeen>>
  /\ UNCHANGED presenceVars
  /\ UNCHANGED editorVars
  /\ UNCHANGED <<sizeWrites, socketVars>>

TypeKey ==
  /\ Idle
  /\ editingNode # Null
  /\ editingNode \notin changedNodeIds
  /\ changedNodeIds' = changedNodeIds \cup {editingNode}
  /\ last' = NoLast
  /\ UNCHANGED <<storeVars, selectedNode, editingNode, timeSinceEditStart, isSaving,
                 rendererVars, taskVars, ghostVars, eventsSeen>>
  /\ UNCHANGED presenceVars
  /\ UNCHANGED editorVars
  /\ UNCHANGED <<sizeWrites, socketVars>>

\* the grace window runs out
Elapse ==
  /\ Idle
  /\ editingNode # Null
  /\ timeSinceEditStart < GraceMs
  /\ timeSinceEditStart' = GraceMs
  /\ last' = NoLast
  /\ UNCHANGED <<storeVars, selectedNode, editingNode, changedNodeIds, isSaving,
                 rendererVars, taskVars, ghostVars, eventsSeen>>
  /\ UNCHANGED presenceVars
  /\ UNCHANGED editorVars
  /\ UNCHANGED <<sizeWrites, socketVars>>

StopEdit ==
  /\ Idle
  /\ editingNode # Null
  /\ editingNode' = Null
  /\ changedNodeIds' = changedNodeIds \ {editingNode}
  /\ timeSinceEditStart' = GraceMs
  /\ last' = NoLast
  /\ UNCHANGED <<storeVars, selectedNode, isSaving,
                 rendererVars, taskVars, ghostVars, eventsSeen>>
  /\ UNCHANGED presenceVars
  /\ UNCHANGED editorVars
  /\ UNCHANGED <<sizeWrites, socketVars>>

ToggleSaving ==
  /\ Idle
  /\ isSaving' = ~isSaving
  /\ last' = NoLast
  /\ UNCHANGED <<storeVars, selectedNode, editingNode, changedNodeIds, timeSinceEditStart,
                 rendererVars, taskVars, ghostVars, eventsSeen>>
  /\ UNCHANGED presenceVars
  /\ UNCHANGED editorVars
  /\ UNCHANGED <<sizeWrites, socketVars>>

----------------------------------------------------------------------------
(* handleRealtimeNodeUpdate: the synchronous part *)

\* PassesFilters without the self-echo check
PassesFilters_NoAuthorCheck(p) == p.entity_name = EntityName

\* entity_name and modified_by filters, common to the four handlers
PassesFilters(p) == p.entity_name = EntityName /\ p.modified_by # CurrentUser

\* { ...local.data, ...remote.data }: a key the remote data lacks keeps the local value
SpreadField(localV, remoteV) == IF remoteV # Undef THEN remoteV ELSE localV

\* MergeElement with the full apply held back while any node is under edit
MergeElement_BlockedByAnyEdit(local, p, isNodeBeingEdited, isNodeSelected, hasLocalChanges) ==
  LET shouldUpdateElements == ~isNodeBeingEdited /\ ~isNodeSelected /\ editingNode = Null
      shouldUpdateCompletedOnly ==
        p.completed # Undef /\ (isNodeBeingEdited \/ isNodeSelected)
  IN IF shouldUpdateElements THEN NodeOf(p)
     ELSE IF shouldUpdateCompletedOnly
       THEN [local EXCEPT !.completed = p.completed,
                          !.rect = IF Truthy(p.rect) THEN p.rect ELSE @]
     ELSE IF ~hasLocalChanges
       THEN [local EXCEPT
               !.label = IF Truthy(local.label) THEN local.label
                         ELSE SpreadField(local.label, p.label),
               !.completed = SpreadField(@, p.completed),
               !.rect = SpreadField(@, p.rect)]
     ELSE local

\* MergeElement with the hasLocalChanges guard and the label guard left out:
\* the remote data is spread over the local data
MergeElement_NoDirtyGuard(local, p, isNodeBeingEdited, isNodeSelected, hasLocalChanges) ==
  LET shouldUpdateElements == ~isNodeBeingEdited /\ ~isNodeSelected
      shouldUpdateCompletedOnly ==
        p.completed # Undef /\ (isNodeBeingEdited \/ isNodeSelected)
  IN IF shouldUpdateElements THEN NodeOf(p)
     ELSE IF shouldUpdateCompletedOnly
       THEN [local EXCEPT !.completed = p.completed,
                          !.rect = IF Truthy(p.rect) THEN p.rect ELSE @]
     ELSE [local EXCEPT
             !.label = SpreadField(local.label, p.label),
             !.completed = SpreadField(@, p.completed),
             !.rect = SpreadField(@, p.rect)]

\* MergeElement with the completed-only branch limited to the selected node
MergeElement_NoCompletedOnly(local, p, isNodeBeingEdited, isNodeSelected, hasLocalChanges) ==
  LET shouldUpdateElements == ~isNodeBeingEdited /\ ~isNodeSelected
      shouldUpdateCompletedOnly == p.completed # Undef /\ isNodeSelected
  IN IF shouldUpdateElements THEN NodeOf(p)
     ELSE IF shouldUpdateCompletedOnly
       THEN [local EXCEPT !.completed = p.completed,
                          !.rect = IF Truthy(p.rect) THEN p.rect ELSE @]
     ELSE IF ~hasLocalChanges
       THEN [local EXCEPT
               !.label = IF Truthy(local.label) THEN local.label
                         ELSE SpreadField(local.label, p.label),
               !.completed = SpreadField(@, p.completed),
               !.rect = SpreadField(@, p.rect)]
     ELSE local

\* the element written at elementIndex (lines 666-722)
MergeElement(local, p, isNodeBeingEdited, isNodeSelected, hasLocalChanges) ==
  LET shouldUpdateElements == ~isNodeBeingEdited /\ ~isNodeSelected
      shouldUpdateCompletedOnly ==
        p.completed # Undef /\ (isNodeBeingEdited \/ isNodeSelected)
  IN IF shouldUpdateElements THEN NodeOf(p)
     ELSE IF shouldUpdateCompletedOnly
       THEN [local EXCEPT !.completed = p.completed,
                          !.rect = IF Truthy(p.rect) THEN p.rect ELSE @]
     ELSE IF ~hasLocalChanges
       THEN [local EXCEPT
               !.label = IF Truthy(local.label) THEN local.label
                         ELSE SpreadField(local.label, p.label),
               !.completed = SpreadField(@, p.completed),
               !.rect = SpreadField(@, p.rect)]
     ELSE local

\* elements.value after lines 664-729
UpdateElements(ns, p, isNodeBeingEdited, isNodeSelected, hasLocalChanges) ==
  LET elementIndex == FindIndex(ns, p.id)
  IN IF elementIndex # 0
       THEN [ns EXCEPT ![elementIndex] =
               MergeElement(@, p, isNodeBeingEdited, isNodeSelected, hasLocalChanges)]
       ELSE Append(ns, NodeOf(p))

\* nodeCreationOrder.value.set when data.order is present (lines 731-733)
SetOrder(ord, id, order) == IF order # Undef THEN [ord EXCEPT ![id] = order] ELSE ord

\* the old edges into the target are dropped, the new edge is pushed (lines 806-821)
ReplaceEdge(es, source, target) ==
  Append(SelectSeq(es, LAMBDA e : e.target # target), Edge(source, target))

\* d3Node.data.completed = remoteNode.data.completed, when d3Node is found
SetCompleted(arr, id, completed) ==
  LET i == FindIndex(arr, id)
  IN IF i # 0 /\ completed # Undef THEN [arr EXCEPT ![i].completed = completed] ELSE arr

\* the strikethrough restyling is scheduled when the completed flag flips
StrikeTimers(arr, id, completed, evt) ==
  LET i == FindIndex(arr, id)
      oldCompleted == IF i # 0 /\ arr[i].completed = "true" THEN "true" ELSE "false"
  IN IF i # 0 /\ completed # Undef /\ oldCompleted # completed
       THEN {[kind |-> "strikethrough", evt |-> evt, id |-> id]} ELSE {}

SnapshotTask(evt) == [kind |-> "snapshot", evt |-> evt]

\* a scheduled callback of handleRealtimeNodeUpdate with the constants its closure
\* captured; hasAnyNodeBeingEdited is assigned in the nextTick callback (line 1024)
UpdateTask(kind, evt, p, isNew, isNodeBeingEdited, isNodeSelected, hasLocalChanges) ==
  [kind |-> kind, evt |-> evt, p |-> p, isNew |-> isNew,
   isNodeBeingEdited |-> isNodeBeingEdited, isNodeSelected |-> isNodeSelected,
   hasLocalChanges |-> hasLocalChanges, hasAnyNodeBeingEdited |-> FALSE]

\* what a handler reads on entry, with what it decided
Arrival(kind, outcome) ==
  [kind |-> kind, outcome |-> outcome, editing |-> editingNode, selected |-> selectedNode,
   dirty |-> changedNodeIds, saving |-> isSaving, elapsed |-> timeSinceEditStart,
   nodes |-> nodes, edges |-> edges, order |-> nodeCreationOrder]

\* every update counts as one for the node under edit
IsUpdatingEditingNode_AnyNode(p) == TRUE

\* line 592: the update targets the node under local edit
IsUpdatingEditingNode(p) == p.id = editingNode

HandleRealtimeNodeUpdate(p) ==
  /\ Idle
  /\ eventsSeen < MaxEvents
  /\ eventsSeen' = eventsSeen + 1
  /\ LET evt == eventsSeen + 1
         editingNodeId == editingNode
         isUpdatingEditingNode == IsUpdatingEditingNode(p)
         isNodeBeingEdited == p.id = editingNodeId
         isNodeSelected == p.id = selectedNode /\ p.id # editingNodeId
         hasLocalChanges == p.id \in changedNodeIds /\ isNodeBeingEdited
         isNew == ~HasNode(nodes, p.id)
         shouldAllowUpdate == timeSinceEditStart < GraceMs /\ ~hasLocalChanges
         merged == UpdateElements(nodes, p, isNodeBeingEdited, isNodeSelected, hasLocalChanges)
         snap == IF isNew THEN <<SnapshotTask(evt)>> ELSE <<>>
     IN IF ~PassesFilters(p) \/ (isSaving /\ isUpdatingEditingNode) \/ p.node = "missing"
          THEN \* lines 566-613: dropped
               /\ last' = Ran("NodeUpdated", evt, "ignored")
               /\ events' = [events EXCEPT ![evt] = [at |-> Arrival("NodeUpdated", "ignored"), p |-> p]]
               /\ UNCHANGED <<storeVars, rendererVars, taskVars>>
        ELSE IF isNodeBeingEdited /\ ~shouldAllowUpdate
          THEN \* lines 751-797: the node is under local edit, no render
               /\ nodes' = merged
               /\ nodeCreationOrder' = SetOrder(nodeCreationOrder, p.id, p.order)
               /\ rnodes' = SetCompleted(rnodes, p.id, p.completed)
               /\ timers' = timers \cup StrikeTimers(rnodes, p.id, p.completed, evt)
               /\ micro' = micro \o snap
               /\ last' = Ran("NodeUpdated", evt, "editing")
               /\ events' = [events EXCEPT ![evt] = [at |-> Arrival("NodeUpdated", "editing"), p |-> p]]
               /\ UNCHANGED <<edges, redges, nodeSizeCache, positions, editorContent,
                              awaiting>>
        ELSE /\ nodes' = merged
             /\ nodeCreationOrder' = SetOrder(nodeCreationOrder, p.id, p.order)
             /\ edges' = IF p.edge # Undef THEN ReplaceEdge(edges, p.edge, p.id) ELSE edges
             /\ micro' = micro \o snap \o
                  <<UpdateTask("updateTick", evt, p, isNew, isNodeBeingEdited,
                               isNodeSelected, hasLocalChanges)>>
             /\ last' = Ran("NodeUpdated", evt, "applied")
             /\ events' = [events EXCEPT ![evt] = [at |-> Arrival("NodeUpdated", "applied"), p |-> p]]
             /\ UNCHANGED <<rendererVars, timers, awaiting>>
  /\ UNCHANGED <<sessionVars, calls, snapshots>>
  /\ UNCHANGED presenceVars
  /\ UNCHANGED editorVars
  /\ UNCHANGED <<sizeWrites, socketVars>>

----------------------------------------------------------------------------
(* Subtree invalidation of the position cache *)

\* clearChildrenPositions: for each edge out of nodeId, in array order, delete
\* the child's position and recurse into the child. The code keeps no visited
\* set: re-entering a node that is still on the call stack repeats the same
\* descent for ever, so the call ends in a stack overflow (ok = FALSE) with the
\* deletions made so far in place.
RECURSIVE ClearKids(_, _, _, _)
ClearKids(kids, st, path, es) ==
  IF kids = <<>> \/ ~st.ok THEN st
  ELSE LET child == Head(kids).target
           st1 == [st EXCEPT !.pos = @ \ {child}]
           st2 == IF child \in path
                    THEN [st1 EXCEPT !.ok = FALSE]
                    ELSE ClearKids(SelectSeq(es, LAMBDA e : e.source = child),
                                   st1, path \cup {child}, es)
       IN ClearKids(Tail(kids), st2, path, es)

ClearChildrenPositions(nodeId, st, es) ==
  ClearKids(SelectSeq(es, LAMBDA e : e.source = nodeId), st, {nodeId}, es)

\* renderer.positions.delete(target); clearChildrenPositions(target)
ClearSubtree(target, st, es) ==
  IF ~st.ok THEN st
  ELSE ClearChildrenPositions(target, [st EXCEPT !.pos = @ \ {target}], es)

----------------------------------------------------------------------------
(* handleRealtimeNodeUpdate: the nextTick callback (lines 824-1121) *)

\* lines 847-977: the renderer's node gets the label (unless locally edited,
\* selected or changed), the rect and the completed flag
PatchD3Node(arr, p, isLocalEditing, hasLocalChanges) ==
  LET i == FindIndex(arr, p.id)
  IN IF i = 0 THEN arr
     ELSE [arr EXCEPT
             ![i].label = IF ~isLocalEditing /\ ~hasLocalChanges THEN p.label ELSE @,
             ![i].rect = IF Truthy(p.rect) THEN p.rect ELSE @,
             ![i].completed = IF p.completed # Undef THEN p.completed ELSE @]

\* lines 990-1015: the node is the active edit node, patch renderer.nodes in place
PatchEditedD3Node(arr, p, isNew, isNodeSelected, hasLocalChanges) ==
  LET i == FindIndex(arr, p.id)
  IN IF isNew THEN Append(arr, NodeOf(p))
     ELSE IF i = 0 THEN arr
     ELSE [arr EXCEPT
             ![i].label = IF ~isNodeSelected /\ ~hasLocalChanges THEN p.label ELSE @,
             ![i].completed = IF p.completed # Undef THEN p.completed ELSE @,
             ![i].rect = IF Truthy(p.rect) THEN p.rect ELSE @]

\* lines 1077-1095 and 1102-1120: d3NodeAfterRender
PatchD3NodeAfterRender(arr, p, isNodeBeingEdited, isNodeSelected) ==
  LET i == FindIndex(arr, p.id)
  IN IF i = 0 THEN arr
     ELSE [arr EXCEPT
             ![i].label = IF ~isNodeBeingEdited /\ ~isNodeSelected /\ Truthy(p.label)
                          THEN p.label ELSE @,
             ![i].completed = IF p.completed # Undef THEN p.completed ELSE @,
             ![i].rect = IF Truthy(p.rect) THEN p.rect ELSE @]

Call(evt, op, force) == [evt |-> evt, op |-> op, force |-> force, editing |-> editingNode]

\* safeRender that renders whatever the edit session is
SafeRenderRuns_Always(force) == TRUE

\* safeRender (lines 133-161): TRUE when render() is invoked
SafeRenderRuns(force) == ~(editingNode # Null /\ ~force)

\* what a call of safeRender does: renderer.render() is invoked, or the call
\* returns false at once
SafeRender(evt, force) ==
  IF SafeRenderRuns(force) THEN {Call(evt, "render", force)}
  ELSE {Call(evt, "skipped", force)}

UpdateTick ==
  /\ micro # <<>>
  /\ Head(micro).kind = "updateTick"
  /\ LET t == Head(micro)
         p == t.p
         cleared == IF p.edge # Undef
                      THEN ClearSubtree(p.id, [pos |-> positions, ok |-> TRUE], edges)
                      ELSE [pos |-> positions, ok |-> TRUE]
         isLocalEditing == t.isNodeBeingEdited \/ t.isNodeSelected
         d3 == PatchD3Node(rnodes, p, isLocalEditing, p.id \in changedNodeIds)
         isThisNodeBeingEdited == editingNode = p.id
         hasAnyNodeBeingEdited == editingNode # Null
         force == hasAnyNodeBeingEdited
         \* remoteNode.data.label is read without a guard at line 872 and at line 1004
         throws == /\ p.node = "noData"
                   /\ HasNode(rnodes, p.id)
                   /\ \/ ~isLocalEditing /\ p.id \notin changedNodeIds
                      \/ isThisNodeBeingEdited /\ ~t.isNew /\ ~t.isNodeSelected /\ ~t.hasLocalChanges
     IN /\ positions' = cleared.pos
        /\ nodeSizeCache' = [nodeSizeCache EXCEPT ![p.id] =
                               IF cleared.ok /\ HasNode(rnodes, p.id) /\ Truthy(p.rect)
                               THEN p.rect ELSE Undef]
        /\ IF ~cleared.ok
             THEN \* the recursion overflowed the stack: the callback is aborted
                  /\ micro' = Tail(micro)
                  /\ last' = Ran("updateTick", t.evt, "overflow")
                  /\ UNCHANGED <<rnodes, redges, timers, awaiting, calls>>
           ELSE IF throws
             THEN \* TypeError: the callback is aborted
                  /\ micro' = Tail(micro)
                  /\ last' = Ran("updateTick", t.evt, "threw")
                  /\ UNCHANGED <<rnodes, redges, timers, awaiting, calls>>
           ELSE IF isThisNodeBeingEdited
             THEN /\ rnodes' = PatchEditedD3Node(d3, p, t.isNew, t.isNodeSelected,
                                                 t.hasLocalChanges)
                  /\ timers' = timers \cup StrikeTimers(rnodes, p.id, p.completed, t.evt)
                  /\ micro' = Tail(micro)
                  /\ last' = Ran("updateTick", t.evt, "patched")
                  /\ UNCHANGED <<redges, awaiting, calls>>
           ELSE \* renderer.setData(nodes.value, edges.value, ...); await safeRender(...)
                /\ rnodes' = nodes
                /\ redges' = edges
                /\ timers' = timers \cup StrikeTimers(rnodes, p.id, p.completed, t.evt)
                /\ calls' = calls \cup ({Call(t.evt, "setData", force)} \cup SafeRender(t.evt, force))
                /\ awaiting' = awaiting \cup
                     {[t EXCEPT !.kind = "afterRender",
                                !.hasAnyNodeBeingEdited = hasAnyNodeBeingEdited]}
                /\ micro' = Tail(micro)
                /\ last' = Ran("updateTick", t.evt, "rendered")
  /\ UNCHANGED <<storeVars, sessionVars, editorContent, snapshots, events, eventsSeen>>
  /\ UNCHANGED presenceVars
  /\ UNCHANGED editorVars
  /\ UNCHANGED <<sizeWrites, socketVars>>

\* nextTick(() => saveSnapshot(true))
\* SnapshotTick whose request is dropped while a node is under edit
SnapshotTick_NotWhileEditing ==
  /\ micro # <<>>
  /\ Head(micro).kind = "snapshot"
  /\ snapshots' = IF editingNode # Null THEN snapshots
                  ELSE [snapshots EXCEPT ![Head(micro).evt] = @ + 1]
  /\ micro' = Tail(micro)
  /\ last' = Ran("snapshot", Head(micro).evt, "done")
  /\ UNCHANGED <<storeVars, sessionVars, rendererVars, timers, awaiting, calls, events,
                 eventsSeen>>
  /\ UNCHANGED presenceVars
  /\ UNCHANGED editorVars
  /\ UNCHANGED <<sizeWrites, socketVars>>

SnapshotTick ==
  /\ micro # <<>>
  /\ Head(micro).kind = "snapshot"
  /\ snapshots' = [snapshots EXCEPT ![Head(micro).evt] = @ + 1]
  /\ micro' = Tail(micro)
  /\ last' = Ran("snapshot", Head(micro).evt, "done")
  /\ UNCHANGED <<storeVars, sessionVars, rendererVars, timers, awaiting, calls, events,
                 eventsSeen>>
  /\ UNCHANGED presenceVars
  /\ UNCHANGED editorVars
  /\ UNCHANGED <<sizeWrites, socketVars>>

\* the layout engine finishes a render: every node of renderer.nodes has a
\* position again, and a caller suspended on `await safeRender(...)` with code
\* left to run resumes
RenderComplete(t) ==
  /\ Idle
  /\ t \in awaiting
  /\ awaiting' = awaiting \ {t}
  /\ positions' = positions \cup IdsOf(rnodes)
  /\ micro' = IF t.kind = "rendering" THEN micro ELSE <<t>>
  /\ last' = NoLast
  /\ UNCHANGED <<storeVars, sessionVars, rnodes, redges, nodeSizeCache, editorContent,
                 timers, ghostVars, eventsSeen>>
  /\ UNCHANGED presenceVars
  /\ UNCHANGED editorVars
  /\ UNCHANGED <<sizeWrites, socketVars>>

\* lines 1075-1130: after the render, patch d3NodeAfterRender (existing nodes)
\* and start the set-content timer
AfterRender ==
  /\ micro # <<>>
  /\ Head(micro).kind = "afterRender"
  /\ LET t == Head(micro)
     IN /\ rnodes' = IF t.isNew /\ t.hasAnyNodeBeingEdited THEN rnodes
                     ELSE PatchD3NodeAfterRender(rnodes, t.p, t.isNodeBeingEdited,
                                                 t.isNodeSelected)
        /\ timers' = timers \cup {[t EXCEPT !.kind = "setContentDelay"]}
        /\ micro' = Tail(micro)
        /\ last' = Ran("afterRender", t.evt, "done")
  /\ UNCHANGED <<storeVars, sessionVars, redges, nodeSizeCache, positions, editorContent,
                 awaiting, ghostVars, eventsSeen>>
  /\ UNCHANGED presenceVars
  /\ UNCHANGED editorVars
  /\ UNCHANGED <<sizeWrites, socketVars>>

----------------------------------------------------------------------------
(* handleRealtimeNodeUpdate: the timer callbacks *)

\* lines 774-790 and 949-968: applyStrikethroughToTitle restyles the title; the
\* widget's text is not replaced
Strikethrough(t) ==
  /\ Idle
  /\ t \in timers
  /\ t.kind = "strikethrough"
  /\ timers' = timers \ {t}
  /\ last' = NoLast
  /\ UNCHANGED <<storeVars, sessionVars, rendererVars, micro, awaiting, ghostVars, eventsSeen>>
  /\ UNCHANGED presenceVars
  /\ UNCHANGED editorVars
  /\ UNCHANGED <<sizeWrites, socketVars>>

\* lines 1130-1157: the first set-content timer decides with the closure's
\* isNodeBeingEdited and the current dirty set, then waits again
SetContentDelay(t) ==
  /\ Idle
  /\ t \in timers
  /\ t.kind = "setContentDelay"
  /\ timers' = IF t.isNodeBeingEdited /\ t.p.id \in changedNodeIds
                 THEN timers \ {t}
                 ELSE (timers \ {t}) \cup {[t EXCEPT !.kind = "setContent"]}
  /\ last' = NoLast
  /\ UNCHANGED <<storeVars, sessionVars, rendererVars, micro, awaiting, ghostVars, eventsSeen>>
  /\ UNCHANGED presenceVars
  /\ UNCHANGED editorVars
  /\ UNCHANGED <<sizeWrites, socketVars>>

LabelOf(arr, id) ==
  LET i == FindIndex(arr, id) IN IF i = 0 THEN Undef ELSE arr[i].label

\* lines 1158-1680: an empty container gets an editor mounted with the text,
\* then (or when the editor is already mounted) the label is set as its content;
\* an empty label is not written
LabelToSet(t) ==
  IF Truthy(t.p.label) THEN t.p.label
  ELSE IF Truthy(LabelOf(rnodes, t.p.id)) THEN LabelOf(rnodes, t.p.id) ELSE ""

SetContent(t) ==
  /\ Idle
  /\ t \in timers
  /\ t.kind = "setContent"
  /\ timers' = timers \ {t}
  /\ LET id == t.p.id
         mounted == editorContent[id] # NoEditor
         labelToSet == LabelToSet(t)
         written ==
           IF ~mounted
             THEN IF HasNode(rnodes, id) THEN [editorContent EXCEPT ![id] = labelToSet]
                  ELSE editorContent
           ELSE IF labelToSet = "" THEN editorContent
           ELSE IF editorContent[id] = labelToSet /\ t.isNodeBeingEdited THEN editorContent
           ELSE [editorContent EXCEPT ![id] = labelToSet]
     IN /\ editorContent' = written
        /\ calls' = calls \cup
             IF (mounted /\ labelToSet # "") \/ (~mounted /\ HasNode(rnodes, id))
               THEN {Call(t.evt, "setContent", FALSE)} ELSE {}
  /\ last' = Ran("setContent", t.evt, "done")
  /\ UNCHANGED <<storeVars, sessionVars, rnodes, redges, nodeSizeCache, positions,
                 micro, awaiting, snapshots, events, eventsSeen>>
  /\ UNCHANGED presenceVars
  /\ UNCHANGED editorVars
  /\ UNCHANGED <<sizeWrites, socketVars>>

----------------------------------------------------------------------------
(* handleRealtimeNodesDeleted (lines 181-245) *)

DeletePayload(entity, by, ids) == [entity_name |-> entity, modified_by |-> by, node_ids |-> ids]

DeletePayloads ==
  { DeletePayload(EntityName, "peer", ids) : ids \in SUBSET RemoteIds }
  \cup { DeletePayload("other", "peer", {"n1"}), DeletePayload(EntityName, CurrentUser, {"n1"}) }

\* nodes.value.filter(n => !nodeIdsToDelete.includes(n.id))
DeleteNodes(ns, ids) == SelectSeq(ns, LAMBDA n : n.id \notin ids)

\* DeleteEdges that looks at the edge's target only
DeleteEdges_TargetOnly(es, ids) == SelectSeq(es, LAMBDA e : e.target \notin ids)

\* edges.value.filter(e => !includes(e.source) && !includes(e.target))
DeleteEdges(es, ids) == SelectSeq(es, LAMBDA e : e.source \notin ids /\ e.target \notin ids)

\* nodeCreationOrder.value.delete(nodeId) for each deleted id
DeleteOrder(ord, ids) == [id \in DOMAIN ord |-> IF id \in ids THEN Undef ELSE ord[id]]

\* lines 203-209: both refs are cleared when either id is among the deleted ones
ClearsSession(ids) == editingNode \in ids \/ selectedNode \in ids

HandleRealtimeNodesDeleted(d) ==
  /\ Idle
  /\ eventsSeen < MaxEvents
  /\ eventsSeen' = eventsSeen + 1
  /\ LET evt == eventsSeen + 1
         ids == d.node_ids
         newNodes == DeleteNodes(nodes, ids)
         newEdges == DeleteEdges(edges, ids)
         editingAfter == IF ClearsSession(ids) THEN Null ELSE editingNode
     IN IF ~PassesFilters(d) \/ isSaving \/ ids = {}
          THEN /\ last' = Ran("NodesDeleted", evt, "ignored")
               /\ events' = [events EXCEPT ![evt] = [at |-> Arrival("NodesDeleted", "ignored"), d |-> d]]
               /\ UNCHANGED <<storeVars, selectedNode, editingNode, rnodes, redges, micro>>
          ELSE /\ selectedNode' = IF ClearsSession(ids) THEN Null ELSE selectedNode
               /\ editingNode' = editingAfter
               /\ nodes' = newNodes
               /\ edges' = newEdges
               /\ nodeCreationOrder' = DeleteOrder(nodeCreationOrder, ids)
               /\ IF editingAfter # Null
                    THEN \* updateRendererDataWithoutRender
                         /\ rnodes' = newNodes
                         /\ redges' = newEdges
                         /\ micro' = micro \o <<SnapshotTask(evt)>>
                    ELSE /\ micro' = micro \o
                              <<SnapshotTask(evt), [kind |-> "deleteTick", evt |-> evt, d |-> d]>>
                         /\ UNCHANGED <<rnodes, redges>>
               /\ last' = Ran("NodesDeleted", evt, "applied")
               /\ events' = [events EXCEPT ![evt] = [at |-> Arrival("NodesDeleted", "applied"), d |-> d]]
  /\ UNCHANGED <<changedNodeIds, timeSinceEditStart, isSaving, nodeSizeCache, positions,
                 editorContent, timers, awaiting, calls, snapshots>>
  /\ UNCHANGED presenceVars
  /\ UNCHANGED editorVars
  /\ UNCHANGED <<sizeWrites, socketVars>>

\* lines 239-242: renderer.setData(newNodes, newEdges, ...); await safeRender(renderer)
\* (nothing is scheduled between the handler and this callback, so the arrays
\* it captured are the store's)
DeleteTick ==
  /\ micro # <<>>
  /\ Head(micro).kind = "deleteTick"
  /\ LET t == Head(micro)
     IN /\ rnodes' = nodes
        /\ redges' = edges
        /\ calls' = calls \cup
             ({Call(t.evt, "setData", FALSE)} \cup SafeRender(t.evt, FALSE))
        /\ awaiting' = awaiting \cup
             IF SafeRenderRuns(FALSE) THEN {[kind |-> "rendering", evt |-> t.evt]} ELSE {}
        /\ micro' = Tail(micro)
        /\ last' = Ran("deleteTick", t.evt, "done")
  /\ UNCHANGED <<storeVars, sessionVars, nodeSizeCache, positions, editorContent,
                 timers, snapshots, events, eventsSeen>>
  /\ UNCHANGED presenceVars
  /\ UNCHANGED editorVars
  /\ UNCHANGED <<sizeWrites, socketVars>>

----------------------------------------------------------------------------
(* handleRealtimeNodesBatchUpdate (lines 327-561) *)

Patch(id, label, completed, rect, order) ==
  [id |-> id, label |-> label, completed |-> completed, rect |-> rect, order |-> order]

BatchPayload(entity, by, ns, es) ==
  [entity_name |-> entity, modified_by |-> by, nodes |-> ns, edges |-> es]

NewN3   == Patch("n3", "x", Undef, Undef, Undef)
PatchN1 == Patch("n1", "y", "true", Undef, Undef)
PatchN2 == Patch("n2", "x", Undef, "r2", "o2")

\* the batches that are enumerated; edges = <<>> stands for a payload without edges
BatchPayloads ==
  { BatchPayload(EntityName, "peer", ns, es) : <<ns, es>> \in
      { << <<NewN3>>,          <<Edge("n1", "n3")>> >>,
        << <<NewN3, PatchN1>>, <<Edge("n1", "n3")>> >>,
        << <<NewN3, NewN3>>,   <<>> >>,
        << <<PatchN1>>,        <<>> >>,
        << <<PatchN1, PatchN2>>, <<Edge("root", "n1")>> >>,
        << <<PatchN2>>,        <<Edge("n3", "n2"), Edge("root", "n1")>> >>,
        << <<PatchN2>>,        <<Edge("root", "n2"), Edge("n1", "n2")>> >>,
        << <<>>,               <<>> >> } }
  \cup { BatchPayload("other", "peer", <<PatchN1>>, <<>>),
         BatchPayload(EntityName, CurrentUser, <<PatchN1>>, <<>>) }

\* remoteNodeUpdates.find(n => n.id === localNode.id)
FirstPatch(ps, id) == ps[FindIndex(ps, id)]

\* { ...localNode, ...remoteNode }: the remote node's data object replaces the local one
SpreadNode(local, remote) == Node(local.id, remote.label, remote.completed, remote.rect)

\* lines 368-389: existing nodes are overwritten by their patch, new ones appended
BatchNodes(ns, ps) ==
  LET updatedNodes == [i \in 1..Len(ns) |->
                         IF HasNode(ps, ns[i].id) THEN SpreadNode(ns[i], FirstPatch(ps, ns[i].id))
                         ELSE ns[i]]
      newNodes == SelectSeq(ps, LAMBDA r : ~HasNode(ns, r.id))
  IN updatedNodes \o [i \in 1..Len(newNodes) |-> NodeOf(newNodes[i])]

\* remoteNodeUpdates.filter(remoteNode => !localNodeIds.has(remoteNode.id))
NewNodesOf(ns, ps) == SelectSeq(ps, LAMBDA r : ~HasNode(ns, r.id))

\* nodeCreationOrder.value.set(id, data.order): for the local nodes that have a
\* patch (the first one found), then for the new nodes in payload order
RECURSIVE OrderOfExisting(_, _, _)
OrderOfExisting(ord, ns, ps) ==
  IF ns = <<>> THEN ord
  ELSE LET id == Head(ns).id
           ord1 == IF HasNode(ps, id) THEN SetOrder(ord, id, FirstPatch(ps, id).order) ELSE ord
       IN OrderOfExisting(ord1, Tail(ns), ps)

RECURSIVE OrderOfNew(_, _)
OrderOfNew(ord, newNodes) ==
  IF newNodes = <<>> THEN ord
  ELSE OrderOfNew(SetOrder(ord, Head(newNodes).id, Head(newNodes).order), Tail(newNodes))

BatchOrder(ord, ns, ps) == OrderOfNew(OrderOfExisting(ord, ns, ps), NewNodesOf(ns, ps))

\* BatchEdges that drops the old edges and forgets to append the payload's
BatchEdges_FilterOnly(es, pes) ==
  LET targetsToUpdate == {pes[i].target : i \in 1..Len(pes)}
  IN SelectSeq(es, LAMBDA e : e.target \notin targetsToUpdate)

\* lines 391-404: the old edges into any target of the payload are dropped,
\* the payload's edges appended
BatchEdges(es, pes) ==
  LET targetsToUpdate == {pes[i].target : i \in 1..Len(pes)}
  IN SelectSeq(es, LAMBDA e : e.target \notin targetsToUpdate) \o pes

BatchTask(kind, evt, b, newNodes, batchContainsEditingNode) ==
  [kind |-> kind, evt |-> evt, b |-> b, newNodes |-> newNodes,
   batchContainsEditingNode |-> batchContainsEditingNode]

HandleRealtimeNodesBatchUpdate(b) ==
  /\ Idle
  /\ eventsSeen < MaxEvents
  /\ eventsSeen' = eventsSeen + 1
  /\ LET evt == eventsSeen + 1
         remoteNodeIds == IdsOf(b.nodes)
         allNodesAreBeingEdited ==
           \A id \in remoteNodeIds : id = editingNode \/ id = selectedNode
         newNodes == NewNodesOf(nodes, b.nodes)
         hasNewNodes == newNodes # <<>>
     IN IF ~PassesFilters(b) \/ isSaving \/ b.nodes = <<>> \/ allNodesAreBeingEdited
          THEN \* lines 328-362: dropped
               /\ last' = Ran("NodesBatchUpdated", evt, "ignored")
               /\ events' = [events EXCEPT ![evt] = [at |-> Arrival("NodesBatchUpdated", "ignored"), b |-> b]]
               /\ UNCHANGED <<storeVars, micro>>
          ELSE /\ nodes' = BatchNodes(nodes, b.nodes)
               /\ edges' = BatchEdges(edges, b.edges)
               /\ nodeCreationOrder' = BatchOrder(nodeCreationOrder, nodes, b.nodes)
               /\ micro' = micro \o
                    (IF hasNewNodes THEN <<SnapshotTask(evt)>> ELSE <<>>) \o
                    <<BatchTask("batchTick", evt, b, newNodes,
                                editingNode \in remoteNodeIds \/ selectedNode \in remoteNodeIds)>>
               /\ last' = Ran("NodesBatchUpdated", evt, "applied")
               /\ events' = [events EXCEPT ![evt] = [at |-> Arrival("NodesBatchUpdated", "applied"), b |-> b]]
  /\ UNCHANGED <<sessionVars, rendererVars, timers, awaiting, calls, snapshots>>
  /\ UNCHANGED presenceVars
  /\ UNCHANGED editorVars
  /\ UNCHANGED <<sizeWrites, socketVars>>

\* lines 429-448: each edge's target and its subtree, one edge after the other
RECURSIVE ClearEdgeTargets(_, _, _)
ClearEdgeTargets(pes, st, es) ==
  IF pes = <<>> THEN st
  ELSE ClearEdgeTargets(Tail(pes), ClearSubtree(Head(pes).target, st, es), es)

\* lines 471-486: d3Node patches when the render is skipped
RECURSIVE PatchD3Nodes(_, _)
PatchD3Nodes(arr, ps) ==
  IF ps = <<>> THEN arr
  ELSE LET r == Head(ps)
           i == FindIndex(arr, r.id)
           patched == IF i = 0 THEN arr
                      ELSE [arr EXCEPT
                              ![i].label = IF Truthy(r.label) THEN r.label ELSE @,
                              ![i].completed = IF r.completed # Undef THEN r.completed ELSE @,
                              ![i].rect = IF Truthy(r.rect) THEN r.rect ELSE @]
       IN PatchD3Nodes(patched, Tail(ps))

\* the nextTick callback up to the await (lines 424-503)
BatchTick ==
  /\ micro # <<>>
  /\ Head(micro).kind = "batchTick"
  /\ LET t == Head(micro)
         b == t.b
         hasNewNodes == t.newNodes # <<>>
         cleared == ClearEdgeTargets(b.edges, [pos |-> positions, ok |-> TRUE], edges)
         hasAnyNodeBeingEdited == editingNode # Null
         force == hasAnyNodeBeingEdited /\ hasNewNodes
     IN /\ positions' = cleared.pos
        /\ nodeSizeCache' = [id \in NodeIds |->
                               IF id \in IdsOf(b.nodes) THEN Undef ELSE nodeSizeCache[id]]
        /\ IF ~cleared.ok
             THEN \* the recursion overflowed the stack: the callback is aborted
                  /\ last' = Ran("batchTick", t.evt, "overflow")
                  /\ UNCHANGED <<rnodes, redges, awaiting, calls>>
           ELSE IF hasAnyNodeBeingEdited /\ ~hasNewNodes /\ t.batchContainsEditingNode
             THEN \* updateRendererDataWithoutRender, then the d3Node patches
                  /\ rnodes' = PatchD3Nodes(nodes, b.nodes)
                  /\ redges' = edges
                  /\ last' = Ran("batchTick", t.evt, "patched")
                  /\ UNCHANGED <<awaiting, calls>>
           ELSE \* renderer.setData(updatedNodes, currentEdges, ...); await safeRender(...)
                /\ rnodes' = nodes
                /\ redges' = edges
                /\ calls' = calls \cup
                     ({Call(t.evt, "setData", force)} \cup SafeRender(t.evt, force))
                /\ awaiting' = awaiting \cup
                     IF ~SafeRenderRuns(force) THEN {}
                     ELSE IF hasNewNodes THEN {[t EXCEPT !.kind = "afterBatchRender"]}
                     ELSE {[kind |-> "rendering", evt |-> t.evt]}
                /\ last' = Ran("batchTick", t.evt, "rendered")
        /\ micro' = Tail(micro)
  /\ UNCHANGED <<storeVars, sessionVars, editorContent, timers, snapshots, events, eventsSeen>>
  /\ UNCHANGED presenceVars
  /\ UNCHANGED editorVars
  /\ UNCHANGED <<sizeWrites, socketVars>>

\* lines 505-508: safeRender has returned and the batch had new nodes; their
\* editors are mounted from a timer
AfterBatchRender ==
  /\ micro # <<>>
  /\ Head(micro).kind = "afterBatchRender"
  /\ LET t == Head(micro)
     IN /\ timers' = timers \cup {[t EXCEPT !.kind = "mountNew"]}
        /\ micro' = Tail(micro)
        /\ last' = Ran("afterBatchRender", t.evt, "done")
  /\ UNCHANGED <<storeVars, sessionVars, rendererVars, awaiting, ghostVars, eventsSeen>>
  /\ UNCHANGED presenceVars
  /\ UNCHANGED editorVars
  /\ UNCHANGED <<sizeWrites, socketVars>>

\* lines 509-535: an editor is mounted with the node's label in every new
\* node's container that is still empty
RECURSIVE MountEditors(_, _)
MountEditors(content, newNodes) ==
  IF newNodes = <<>> THEN content
  ELSE LET newNode == Head(newNodes)
           text == IF Truthy(newNode.label) THEN newNode.label ELSE ""
           content1 == IF HasNode(rnodes, newNode.id) /\ content[newNode.id] = NoEditor
                         THEN [content EXCEPT ![newNode.id] = text] ELSE content
       IN MountEditors(content1, Tail(newNodes))

MountNew(t) ==
  /\ Idle
  /\ t \in timers
  /\ t.kind = "mountNew"
  /\ editorContent' = MountEditors(editorContent, t.newNodes)
  /\ timers' = (timers \ {t}) \cup
       {[t EXCEPT !.kind = "setNewContent",
                  !.newNodes = SelectSeq(t.newNodes, LAMBDA r :
                                 HasNode(rnodes, r.id) /\ editorContent[r.id] = NoEditor)]}
  /\ last' = NoLast
  /\ UNCHANGED <<storeVars, sessionVars, rnodes, redges, nodeSizeCache, positions,
                 micro, awaiting, ghostVars, eventsSeen>>
  /\ UNCHANGED presenceVars
  /\ UNCHANGED editorVars
  /\ UNCHANGED <<sizeWrites, socketVars>>

\* lines 537-553: editorInstance.commands.setContent(text, false) for the
\* editors mounted above, when the text is not empty
RECURSIVE SetContents(_, _)
SetContents(content, mountedNodes) ==
  IF mountedNodes = <<>> THEN content
  ELSE LET newNode == Head(mountedNodes)
           content1 == IF content[newNode.id] # NoEditor /\ Truthy(newNode.label)
                         THEN [content EXCEPT ![newNode.id] = newNode.label] ELSE content
       IN SetContents(content1, Tail(mountedNodes))

SetNewContent(t) ==
  /\ Idle
  /\ t \in timers
  /\ t.kind = "setNewContent"
  /\ editorContent' = SetContents(editorContent, t.newNodes)
  /\ timers' = timers \ {t}
  /\ last' = NoLast
  /\ UNCHANGED <<storeVars, sessionVars, rnodes, redges, nodeSizeCache, positions,
                 micro, awaiting, ghostVars, eventsSeen>>
  /\ UNCHANGED presenceVars
  /\ UNCHANGED editorVars
  /\ UNCHANGED <<sizeWrites, socketVars>>

----------------------------------------------------------------------------
(* handleRealtimeNodeEditing (lines 250-322) *)

EditingPayload(entity, user, id, isEditing) ==
  [entity_name |-> entity, user_id |-> user, node_id |-> id, is_editing |-> isEditing]

EditingPayloads ==
  { EditingPayload(EntityName, "peer", id, isEditing) :
      <<id, isEditing>> \in {"n1", "n2", "n3"} \X BOOLEAN }
  \cup { EditingPayload("other", "peer", "n1", TRUE),
         EditingPayload(EntityName, CurrentUser, "n1", TRUE),
         EditingPayload(EntityName, "peer2", "n2", TRUE),
         EditingPayload(EntityName, "peer2", "n2", FALSE) }

\* lines 251-258: the author of a presence event is payload.user_id
PassesEditingFilters(u) == u.entity_name = EntityName /\ u.user_id # CurrentUser

\* lines 271-321: the badge is drawn on, or removed from, the node group when
\* the node has one in the DOM
SetBadge(bs, id, isEditing) ==
  IF editorContent[id] = NoEditor THEN bs
  ELSE IF isEditing THEN bs \cup {id}
  ELSE bs \ {id}

HandleRealtimeNodeEditing(u) ==
  /\ Idle
  /\ eventsSeen < MaxEvents
  /\ eventsSeen' = eventsSeen + 1
  /\ LET evt == eventsSeen + 1
     IN IF ~PassesEditingFilters(u)
          THEN /\ last' = Ran("NodeEditing", evt, "ignored")
               /\ events' = [events EXCEPT ![evt] = [at |-> Arrival("NodeEditing", "ignored"), u |-> u]]
               /\ UNCHANGED presenceVars
          ELSE /\ nodeEditingUsers' = [nodeEditingUsers EXCEPT ![u.node_id] =
                                         IF u.is_editing THEN u.user_id ELSE Undef]
               /\ badges' = SetBadge(badges, u.node_id, u.is_editing)
               /\ last' = Ran("NodeEditing", evt, "applied")
               /\ events' = [events EXCEPT ![evt] = [at |-> Arrival("NodeEditing", "applied"), u |-> u]]
  /\ UNCHANGED <<storeVars, sessionVars, rendererVars, taskVars, calls, snapshots>>
  /\ UNCHANGED editorVars
  /\ UNCHANGED <<sizeWrites, socketVars>>

----------------------------------------------------------------------------

Next ==
  \/ \E n \in EditIds : Select(n)
  \/ \E n \in EditIds : StartEdit(n)
  \/ TypeKey
  \/ Elapse
  \/ StopEdit
  \/ ToggleSaving
  \/ \E p \in UpdatePayloads : HandleRealtimeNodeUpdate(p)
  \/ \E d \in DeletePayloads : HandleRealtimeNodesDeleted(d)
  \/ DeleteTick
  \/ UpdateTick
  \/ SnapshotTick
  \/ \E t \in awaiting : RenderComplete(t)
  \/ AfterRender
  \/ \E t \in timers : Strikethrough(t)
  \/ \E t \in timers : SetContentDelay(t)
  \/ \E t \in timers : SetContent(t)
  \/ \E b \in BatchPayloads : HandleRealtimeNodesBatchUpdate(b)
  \/ BatchTick
  \/ AfterBatchRender
  \/ \E t \in timers : MountNew(t)
  \/ \E t \in timers : SetNewContent(t)
  \/ \E u \in EditingPayloads : HandleRealtimeNodeEditing(u)

Spec == Init /\ [][Next]_vars

----------------------------------------------------------------------------
(* safeRender(renderer, true) while a node is under edit: the editor state  *)
(* is preserved, the layout is rendered, and the state is restored once the *)
(* editing widget is back                                                   *)

\* positions in the edited document run from 0 to MaxPos
MaxPos == 3

\* restoreEditorState: maxAttempts
MaxAttempts == 10

\* restoreEditorState: bound of the focus retry loop
MaxFocusAttempts == 3

Min(a, b) == IF a < b THEN a ELSE b
Max(a, b) == IF a > b THEN a ELSE b

\* the editing widgets the user may have open: a selection from <= to inside
\* the document, focused or not
OpenEditors ==
  { [mounted |-> TRUE, docSize |-> d, from |-> f, to |-> t, isFocused |-> foc] :
      <<d, f, t, foc>> \in { q \in (0..MaxPos) \X (0..MaxPos) \X (0..MaxPos) \X BOOLEAN :
                               q[2] <= q[3] /\ q[3] <= q[1] } }

\* n1 is under edit in the saved document root -> n1 -> n2; its widget is open
\* with some selection, or is not mounted at the moment
RestoreInit ==
  /\ nodes = Chain2Nodes
  /\ edges = Chain2Edges
  /\ nodeCreationOrder = [id \in NodeIds |-> IF id \in IdsOf(Chain2Nodes) THEN "o1" ELSE Undef]
  /\ rnodes = Chain2Nodes
  /\ redges = Chain2Edges
  /\ nodeSizeCache = [id \in NodeIds |-> IF id \in IdsOf(Chain2Nodes) THEN "r1" ELSE Undef]
  /\ positions = IdsOf(Chain2Nodes)
  /\ editorContent = [id \in NodeIds |->
                        IF id \in IdsOf(Chain2Nodes)
                        THEN Chain2Nodes[FindIndex(Chain2Nodes, id)].label ELSE NoEditor]
  /\ selectedNode = "n1"
  /\ editingNode = "n1"
  /\ changedNodeIds = {}
  /\ timeSinceEditStart = GraceMs
  /\ isSaving = FALSE
  /\ nodeEditingUsers = [id \in NodeIds |-> Undef]
  /\ badges = {}
  /\ micro = <<>>
  /\ timers = {}
  /\ awaiting = {}
  /\ calls = {}
  /\ snapshots = [e \in 1..MaxEvents |-> 0]
  /\ events = [e \in 1..MaxEvents |-> [at |-> NoLast]]
  /\ eventsSeen = 0
  /\ last = NoLast
  /\ editorInstance \in OpenEditors \cup {Unmounted}
  /\ sizeWrites = {}
  /\ RealTimeHandlerInit
  /\ preservedState = NoState
  /\ restoring = "none"
  /\ attempts = 0
  /\ focusAttempts = 0
  /\ editorCalls = <<>>

\* preserveEditorState (lines 32-60); anchor, head and content are saved too but
\* restoreEditorState reads none of them
PreserveEditorState(nodeId) ==
  IF nodeId = Null \/ ~editorInstance.mounted THEN NoState
  ELSE [nodeId |-> nodeId, isFocused |-> editorInstance.isFocused,
        from |-> editorInstance.from, to |-> editorInstance.to]

\* safeRender(renderer, true) up to `await renderer.render()` (lines 133-152)
SafeRenderForced ==
  /\ restoring = "none"
  /\ editingNode # Null
  /\ preservedState' = PreserveEditorState(editingNode)
  /\ restoring' = "render"
  /\ UNCHANGED <<editorInstance, attempts, focusAttempts, editorCalls, reconcilerVars>>
  /\ UNCHANGED <<sizeWrites, socketVars>>

\* renderer.render() resolves: the layout was rebuilt and the widget the user
\* was typing in is gone; safeRender goes on to restoreEditorState when a state
\* was preserved (lines 152-160, 67-74)
RenderResolves ==
  /\ restoring = "render"
  /\ editorInstance' = Unmounted
  /\ restoring' = IF preservedState = NoState THEN "done" ELSE "poll"
  /\ attempts' = 0
  /\ UNCHANGED <<preservedState, focusAttempts, editorCalls, reconcilerVars>>
  /\ UNCHANGED <<sizeWrites, socketVars>>

\* the layout engine mounts the editing widget again, on a document of size d,
\* with the caret at the start
EditorReappears(d, foc) ==
  /\ restoring = "poll"
  /\ ~editorInstance.mounted
  /\ editorInstance' = [mounted |-> TRUE, docSize |-> d, from |-> 0, to |-> 0, isFocused |-> foc]
  /\ UNCHANGED <<preservedState, restoring, attempts, focusAttempts, editorCalls,
                 reconcilerVars>>
  /\ UNCHANGED <<sizeWrites, socketVars>>

\* lines 95-96
Clamp(x, docSize) == Max(0, Min(x, docSize))

\* lines 91-100: the selection is reapplied when the clamped range is not empty
RestoreSelection(inst) ==
  LET validFrom == Clamp(preservedState.from, inst.docSize)
      validTo == Clamp(preservedState.to, inst.docSize)
  IN IF validFrom # validTo /\ validFrom >= 0 /\ validTo <= inst.docSize
       THEN <<[op |-> "setTextSelection", from |-> validFrom, to |-> validTo,
               editing |-> editingNode]>>
       ELSE <<>>

\* the widget after the commands cs
RECURSIVE Execute(_, _)
Execute(inst, cs) ==
  IF cs = <<>> THEN inst
  ELSE Execute([inst EXCEPT !.from = Head(cs).from, !.to = Head(cs).to], Tail(cs))

\* Poll without the attempt budget: the loop goes on while the widget is away
Poll_NoBudget ==
  /\ restoring = "poll"
  /\ IF editorInstance.mounted
       THEN /\ editorCalls' = editorCalls \o RestoreSelection(editorInstance)
            /\ editorInstance' = Execute(editorInstance, RestoreSelection(editorInstance))
            /\ restoring' = IF preservedState.isFocused THEN "focus" ELSE "done"
            /\ UNCHANGED attempts
       ELSE /\ attempts' = attempts + 1
            /\ restoring' = "poll"
            /\ UNCHANGED <<editorInstance, editorCalls>>
  /\ UNCHANGED <<preservedState, focusAttempts, reconcilerVars>>
  /\ UNCHANGED <<sizeWrites, socketVars>>

\* one turn of the polling loop (lines 76-86), after its 50 ms timer and its
\* animation frame; when the widget is there, lines 88-102 run in the same task
Poll ==
  /\ restoring = "poll"
  /\ IF editorInstance.mounted
       THEN /\ editorCalls' = editorCalls \o RestoreSelection(editorInstance)
            /\ editorInstance' = Execute(editorInstance, RestoreSelection(editorInstance))
            /\ restoring' = IF preservedState.isFocused THEN "focus" ELSE "done"
            /\ UNCHANGED attempts
       ELSE /\ attempts' = attempts + 1
            /\ restoring' = IF attempts + 1 < MaxAttempts THEN "poll" ELSE "gaveUp"
            /\ UNCHANGED <<editorInstance, editorCalls>>
  /\ UNCHANGED <<preservedState, focusAttempts, reconcilerVars>>
  /\ UNCHANGED <<sizeWrites, socketVars>>

\* one test of the focus loop (lines 104-113), after the 100 ms delay or after
\* the 50 ms of the previous turn; focus('end') puts the caret at the end of
\* the document when it takes
FocusAttempt ==
  /\ restoring = "focus"
  /\ IF focusAttempts < MaxFocusAttempts /\ ~editorInstance.isFocused
       THEN /\ \E took \in BOOLEAN :
                 editorInstance' =
                   IF took THEN [editorInstance EXCEPT !.isFocused = TRUE,
                                                       !.from = editorInstance.docSize,
                                                       !.to = editorInstance.docSize]
                   ELSE editorInstance
            /\ editorCalls' = Append(editorCalls,
                 [op |-> "focus", from |-> editorInstance.docSize, to |-> editorInstance.docSize,
                  editing |-> editingNode])
            /\ focusAttempts' = focusAttempts + 1
            /\ UNCHANGED restoring
       ELSE /\ restoring' = "done"
            /\ UNCHANGED <<editorInstance, editorCalls, focusAttempts>>
  /\ UNCHANGED <<preservedState, attempts, reconcilerVars>>
  /\ UNCHANGED <<sizeWrites, socketVars>>

\* the local user leaves the editor, or opens the editor of another node,
\* while the forced render or the restore is under way
EditMoves ==
  /\ restoring \notin {"none", "done", "gaveUp"}
  /\ (StopEdit \/ \E n \in EditIds : StartEdit(n))

\* a handler path that renders during an edit (lines 1060-1062, 1071-1073 and
\* 495-497): renderer.setData(...) is called first, then safeRender(renderer,
\* true), which snapshots the widget and calls renderer.render(). Each of the
\* two calls is logged with the snapshot that exists when it is made.
SetDataAndSafeRender ==
  /\ restoring = "none"
  /\ editingNode # Null
  /\ preservedState' = PreserveEditorState(editingNode)
  /\ restoring' = "render"
  /\ calls' = calls \cup
       { [op |-> "setData", editing |-> editingNode, mounted |-> editorInstance.mounted,
          snapshot |-> preservedState],
         [op |-> "render", editing |-> editingNode, mounted |-> editorInstance.mounted,
          snapshot |-> preservedState'] }
  /\ UNCHANGED <<editorInstance, attempts, focusAttempts, editorCalls>>
  /\ UNCHANGED <<storeVars, sessionVars, rendererVars, taskVars, snapshots, events,
                 presenceVars, eventsSeen, last>>
  /\ UNCHANGED <<sizeWrites, socketVars>>

RestoreNext ==
  \/ SafeRenderForced
  \/ SetDataAndSafeRender
  \/ EditMoves
  \/ RenderResolves
  \/ \E d \in 0..MaxPos, foc \in BOOLEAN : EditorReappears(d, foc)
  \/ Poll
  \/ FocusAttempt

RestoreSpec == RestoreInit /\ [][RestoreNext]_vars

----------------------------------------------------------------------------
(* handleRealtimeNodeUpdate: the deferred size callbacks (lines 1659-2247).  *)
(* After the render the handler starts a 150 ms timer that re-measures the  *)
(* node, and after a successful setContent a second one that runs           *)
(* calculateAndUpdateNodeSize.                                              *)

\* the sizes a measurement of the widget or estimateNodeSize may give
Sizes == {"r2", "r3"}

\* the labels of the remote node whose size is re-measured
SizeLabels == {"x", "<img>", ""}

\* label.includes('<img') || label.includes('image-wrapper')
HasImages(label) == label = "<img>"

\* a pending callback of the size chain of event evt for node id;
\* label is the closure's remoteNode.data.label, newSize the size computed so far
SizeTask(kind, id, label, newSize) ==
  [kind |-> kind, evt |-> 1, id |-> id, label |-> label, newSize |-> newSize]

SetLabel(arr, id, label) ==
  LET i == FindIndex(arr, id) IN IF i = 0 THEN arr ELSE [arr EXCEPT ![i].label = label]

SetRect(arr, id, size) ==
  LET i == FindIndex(arr, id) IN IF i = 0 THEN arr ELSE [arr EXCEPT ![i].rect = size]

RectOf(arr, id) ==
  LET i == FindIndex(arr, id) IN IF i = 0 THEN Undef ELSE arr[i].rect

\* a NodeUpdated for n1 or n2 has been applied and rendered in the document
\* root -> n1 -> n2, no node is under edit, and one of the two size timers of
\* the event is pending
SizeInit ==
  \E id \in EditIds, label \in SizeLabels, kind \in {"sizeTimer", "calcSize"}, rc \in {Undef, "r2"} :
    /\ nodes = SetRect(SetLabel(Chain2Nodes, id, label), id, rc)
    /\ edges = Chain2Edges
    /\ nodeCreationOrder = [n \in NodeIds |-> IF n \in IdsOf(Chain2Nodes) THEN "o1" ELSE Undef]
    /\ rnodes = nodes
    /\ redges = Chain2Edges
    /\ nodeSizeCache = [n \in NodeIds |-> IF n \in IdsOf(Chain2Nodes) /\ n # id THEN "r1" ELSE Undef]
    /\ positions = IdsOf(Chain2Nodes)
    /\ editorContent = [n \in NodeIds |->
                          IF n \in IdsOf(Chain2Nodes) THEN LabelOf(nodes, n) ELSE NoEditor]
    /\ selectedNode = Null
    /\ editingNode = Null
    /\ changedNodeIds = {}
    /\ timeSinceEditStart = GraceMs
    /\ isSaving = FALSE
    /\ nodeEditingUsers = [n \in NodeIds |-> Undef]
    /\ badges = {}
    /\ micro = <<>>
    /\ timers = {SizeTask(kind, id, label, Undef)}
    /\ awaiting = {}
    /\ calls = {}
    /\ snapshots = [e \in 1..MaxEvents |-> 0]
    /\ events = [e \in 1..MaxEvents |-> [at |-> NoLast]]
    /\ eventsSeen = MaxEvents
    /\ last = NoLast
    /\ editorInstance = Unmounted
    /\ preservedState = NoState
    /\ restoring = "none"
    /\ attempts = 0
    /\ focusAttempts = 0
    /\ editorCalls = <<>>
    /\ sizeWrites = {}
    /\ RealTimeHandlerInit

\* a write of newSize for node id, as it is logged
SizeWrite(t, field) == [id |-> t.id, field |-> field, by |-> t.kind, editing |-> editingNode]

\* the writes of lines 2141-2190 (and 2058-2100, 1838-1886): the size cache,
\* the rect of the renderer's node, the rect of the store's node, and the
\* cached position of the node is dropped
WritesSize(t, size) ==
  /\ nodeSizeCache' = [nodeSizeCache EXCEPT ![t.id] = size]
  /\ rnodes' = SetRect(rnodes, t.id, size)
  /\ nodes' = SetRect(nodes, t.id, size)
  /\ positions' = positions \ {t.id}
  /\ sizeWrites' = sizeWrites \cup {SizeWrite(t, "nodeSizeCache")}
       \cup (IF HasNode(rnodes, t.id) THEN {SizeWrite(t, "renderer.rect")} ELSE {})
       \cup (IF HasNode(nodes, t.id) THEN {SizeWrite(t, "store.rect")} ELSE {})
  /\ UNCHANGED socketVars

\* lines 1931-1946: the 150 ms timer fires; it gives up when the node is under
\* edit, when its widget is gone, or when the remote label is empty
SizeTimer(t) ==
  /\ Idle
  /\ t \in timers
  /\ t.kind = "sizeTimer"
  /\ timers' = IF editingNode = t.id \/ editorContent[t.id] = NoEditor \/ t.label = ""
                 THEN timers \ {t}
                 ELSE (timers \ {t}) \cup {[t EXCEPT !.kind = "sizeFrame"]}
  /\ last' = NoLast
  /\ UNCHANGED <<storeVars, sessionVars, rendererVars, micro, awaiting, ghostVars,
                 presenceVars, eventsSeen, editorVars, sizeWrites, socketVars>>

\* lines 1947-2021: animation frame, 10 ms timer, animation frame; the width
\* is estimated and written to the DOM of the node only
SizeFrame(t, est) ==
  /\ Idle
  /\ t \in timers
  /\ t.kind = "sizeFrame"
  /\ timers' = (timers \ {t}) \cup {[t EXCEPT !.kind = "sizeApply", !.newSize = est]}
  /\ last' = NoLast
  /\ UNCHANGED <<storeVars, sessionVars, rendererVars, micro, awaiting, ghostVars,
                 presenceVars, eventsSeen, editorVars, sizeWrites, socketVars>>

\* lines 2022-2218: the 50 ms timer fires; with images still loading it waits
\* for them, otherwise it takes the height and writes the size
SizeApply(t, allImagesLoaded, size) ==
  /\ Idle
  /\ t \in timers
  /\ t.kind = "sizeApply"
  /\ IF HasImages(t.label) /\ ~allImagesLoaded
       THEN /\ timers' = (timers \ {t}) \cup {[t EXCEPT !.kind = "imageJoin"]}
            /\ UNCHANGED <<nodes, rnodes, nodeSizeCache, positions, sizeWrites, socketVars>>
       ELSE /\ timers' = (timers \ {t}) \cup {[t EXCEPT !.kind = "sizeRefresh", !.newSize = size]}
            /\ WritesSize(t, size)
  /\ last' = NoLast
  /\ UNCHANGED <<edges, nodeCreationOrder, sessionVars, redges, editorContent, micro, awaiting,
                 ghostVars, presenceVars, eventsSeen, editorVars>>

\* lines 2048-2126: every image has loaded or failed, 20 ms later the height
\* is taken and the size written
ImageJoin(t, size) ==
  /\ Idle
  /\ t \in timers
  /\ t.kind = "imageJoin"
  /\ timers' = (timers \ {t}) \cup {[t EXCEPT !.kind = "sizeRefresh", !.newSize = size]}
  /\ WritesSize(t, size)
  /\ last' = NoLast
  /\ UNCHANGED <<edges, nodeCreationOrder, sessionVars, redges, editorContent, micro, awaiting,
                 ghostVars, presenceVars, eventsSeen, editorVars>>

\* lines 1891-1925, 2104-2124 and 2195-2215: an animation frame after the
\* write; with a node under edit only the renderer's node gets the rect again,
\* otherwise the renderer is handed the store and a soft render is asked for
SizeRefresh(t) ==
  /\ Idle
  /\ t \in timers
  /\ t.kind = "sizeRefresh"
  /\ timers' = timers \ {t}
  /\ IF editingNode # Null
       THEN /\ rnodes' = SetRect(rnodes, t.id, t.newSize)
            /\ sizeWrites' = sizeWrites \cup
                 (IF HasNode(rnodes, t.id) THEN {SizeWrite(t, "renderer.rect")} ELSE {})
            /\ UNCHANGED <<redges, calls, awaiting, socketVars>>
       ELSE /\ rnodes' = nodes
            /\ redges' = edges
            /\ calls' = calls \cup ({Call(t.evt, "setData", FALSE)} \cup SafeRender(t.evt, FALSE))
            /\ awaiting' = awaiting \cup {[kind |-> "rendering", evt |-> t.evt]}
            /\ UNCHANGED <<sizeWrites, socketVars>>
  /\ last' = NoLast
  /\ UNCHANGED <<storeVars, sessionVars, nodeSizeCache, positions, editorContent, micro,
                 snapshots, events, presenceVars, eventsSeen, editorVars>>

\* calculateAndUpdateNodeSize (lines 1682-1828) up to its first animation
\* frame: it gives up when the node is under edit, when its widget is gone or
\* when the store's label is empty; the size is the store's rect when there is
\* one, and is measured otherwise
CalculateAndUpdateNodeSize(t, measured) ==
  /\ Idle
  /\ t \in timers
  /\ t.kind = "calcSize"
  /\ timers' =
       IF editingNode = t.id \/ editorContent[t.id] = NoEditor \/ ~Truthy(LabelOf(nodes, t.id))
         THEN timers \ {t}
         ELSE (timers \ {t}) \cup
                {[t EXCEPT !.kind = "updateSize",
                           !.newSize = IF Truthy(RectOf(nodes, t.id)) THEN RectOf(nodes, t.id)
                                       ELSE measured]}
  /\ last' = NoLast
  /\ UNCHANGED <<storeVars, sessionVars, rendererVars, micro, awaiting, ghostVars,
                 presenceVars, eventsSeen, editorVars, sizeWrites, socketVars>>

\* updateNodeSizeWithNewSize (lines 1831-1890), called from the last animation
\* frame of calculateAndUpdateNodeSize
UpdateNodeSizeWithNewSize(t) ==
  /\ Idle
  /\ t \in timers
  /\ t.kind = "updateSize"
  /\ IF editingNode = t.id
       THEN /\ timers' = timers \ {t}
            /\ UNCHANGED <<nodes, rnodes, nodeSizeCache, positions, sizeWrites, socketVars>>
       ELSE /\ timers' = (timers \ {t}) \cup {[t EXCEPT !.kind = "sizeRefresh"]}
            /\ WritesSize(t, t.newSize)
  /\ last' = NoLast
  /\ UNCHANGED <<edges, nodeCreationOrder, sessionVars, redges, editorContent, micro, awaiting,
                 ghostVars, presenceVars, eventsSeen, editorVars>>

SizeNext ==
  \/ \E n \in EditIds : StartEdit(n)
  \/ StopEdit
  \/ \E t \in timers : SizeTimer(t)
  \/ \E t \in timers, est \in Sizes : SizeFrame(t, est)
  \/ \E t \in timers, allImagesLoaded \in BOOLEAN, size \in Sizes : SizeApply(t, allImagesLoaded, size)
  \/ \E t \in timers, size \in Sizes : ImageJoin(t, size)
  \/ \E t \in timers : SizeRefresh(t)
  \/ \E t \in timers, measured \in Sizes : CalculateAndUpdateNodeSize(t, measured)
  \/ \E t \in timers : UpdateNodeSizeWithNewSize(t)
  \/ \E t \in awaiting : RenderComplete(t)

SizeSpec == SizeInit /\ [][SizeNext]_vars

----------------------------------------------------------------------------
(* Properties of handleRealtimeNodeUpdate *)

\* the event whose handler or callback ran last
LastEvent == events[last.evt]

CompletedOf(arr, id) ==
  LET i == FindIndex(arr, id) IN IF i = 0 THEN Undef ELSE arr[i].completed

\* a NodeUpdated that passed the filters and carries a node with data, for an
\* existing node that is neither the active edit node nor the selected node, has just been handled
C1_Case ==
  /\ last.kind = "NodeUpdated"
  /\ PassesFilters(LastEvent.p)
  /\ LastEvent.p.node = "ok"
  /\ HasNode(LastEvent.at.nodes, LastEvent.p.id)
  /\ LastEvent.p.id # LastEvent.at.editing
  /\ LastEvent.p.id # LastEvent.at.selected

\* C1: for every remote NodeUpdated that passes the scope and author filters
\* and whose target exists locally and is neither the active edit node nor the
\* selected node, the store's label of the target equals the event's label when
\* the handler returns, whatever other node is being edited.
C1_FullApply == C1_Case => LabelOf(nodes, LastEvent.p.id) = LastEvent.p.label

\* C1 witness: such an event, carrying a new label, handled while another node
\* is being edited
C1_Witness ==
  /\ C1_Case
  /\ editingNode # Null
  /\ LabelOf(LastEvent.at.nodes, LastEvent.p.id) # LastEvent.p.label

\* event e is a NodeUpdated for the node that was under edit and dirty on arrival
DirtyTarget(e) ==
  /\ events[e].at.kind = "NodeUpdated"
  /\ events[e].p.id = events[e].at.editing
  /\ events[e].p.id \in events[e].at.dirty

\* C2: when the local user is editing n, n is dirty and a NodeUpdated for n
\* arrives, the store label of n is unchanged when the handler returns, and
\* neither the handler nor a callback it scheduled ever calls setData or render
\* or writes into n's editing widget.
C2_DirtyNodeUntouched ==
  \A e \in 1..MaxEvents :
    DirtyTarget(e) =>
      /\ (last.kind = "NodeUpdated" /\ last.evt = e) =>
           LabelOf(nodes, events[e].p.id) = LabelOf(events[e].at.nodes, events[e].p.id)
      /\ \A c \in calls : c.evt # e

\* C2 witness: the handler has accepted such an event, which carries another label
C2_Witness ==
  /\ last.kind = "NodeUpdated"
  /\ DirtyTarget(last.evt)
  /\ last.outcome = "editing"
  /\ LastEvent.p.label # LabelOf(LastEvent.at.nodes, LastEvent.p.id)
  /\ LastEvent.at.elapsed < GraceMs

\* C3 as stated: for every remote NodeUpdated whose target is the active edit
\* node and dirty, the store label is untouched and, if the event carries a
\* completed field, the store's completed value equals the event's.
C3_Original ==
  (last.kind = "NodeUpdated" /\ PassesFilters(LastEvent.p) /\ DirtyTarget(last.evt)) =>
    /\ LabelOf(nodes, LastEvent.p.id) = LabelOf(LastEvent.at.nodes, LastEvent.p.id)
    /\ LastEvent.p.completed # Undef =>
         CompletedOf(nodes, LastEvent.p.id) = LastEvent.p.completed

\* C3 amended: the same, for the events that arrive while no save is in flight
\* (an update for the active edit node that arrives during a save is dropped).
C3_CompletedMerged ==
  (/\ last.kind = "NodeUpdated"
   /\ PassesFilters(LastEvent.p)
   /\ DirtyTarget(last.evt)
   /\ ~LastEvent.at.saving) =>
    /\ LabelOf(nodes, LastEvent.p.id) = LabelOf(LastEvent.at.nodes, LastEvent.p.id)
    /\ LastEvent.p.completed # Undef =>
         CompletedOf(nodes, LastEvent.p.id) = LastEvent.p.completed

\* C3 witness: a completed flag that differs from the local one has been merged
\* into the dirty active node
C3_Witness ==
  /\ last.kind = "NodeUpdated"
  /\ PassesFilters(LastEvent.p)
  /\ DirtyTarget(last.evt)
  /\ ~LastEvent.at.saving
  /\ LastEvent.p.completed # Undef
  /\ LastEvent.p.completed # CompletedOf(LastEvent.at.nodes, LastEvent.p.id)
  /\ LastEvent.p.label # LabelOf(LastEvent.at.nodes, LastEvent.p.id)

\* a callback of event e has yet to run
Pending(e) ==
  \/ \E i \in 1..Len(micro) : micro[i].evt = e
  \/ \E t \in timers : t.evt = e
  \/ \E t \in awaiting : t.evt = e

\* event e is an accepted NodeUpdated for the active edit node that arrived
\* inside the grace window with an empty dirty set
GraceTarget(e) ==
  /\ events[e].at.kind = "NodeUpdated"
  /\ PassesFilters(events[e].p)
  /\ ~events[e].at.saving
  /\ events[e].p.id = events[e].at.editing
  /\ events[e].at.dirty = {}
  /\ events[e].at.elapsed < GraceMs

\* C4: for every remote NodeUpdated whose target is the active edit node, with
\* an empty dirty set and less than 2 s since the edit started, the editing
\* widget's content is the event's label once every callback the handler
\* scheduled has run, the edit session being unchanged. (A finite run refutes
\* this form: nothing is left to run and the content is still the old one.)
C4_Claim ==
  \A e \in 1..MaxEvents :
    (/\ GraceTarget(e)
     /\ Truthy(events[e].p.label)
     /\ ~Pending(e)
     /\ editingNode = events[e].at.editing
     /\ changedNodeIds = {}) =>
      editorContent[events[e].p.id] = events[e].p.label

\* C5: a NodeUpdated for the active edit node that arrives inside the grace
\* window with an empty dirty set is applied in full: the store label of the
\* node equals the event's label when the handler returns.
C5_Claim ==
  (last.kind = "NodeUpdated" /\ GraceTarget(last.evt)) =>
    LabelOf(nodes, LastEvent.p.id) = LastEvent.p.label

----------------------------------------------------------------------------
(* Properties of handleRealtimeNodesBatchUpdate *)

\* the ids of the batch's nodes that were not in the store on arrival
NewIds(e) == IdsOf(events[e].b.nodes) \ IdsOf(events[e].at.nodes)

\* event e is an accepted batch
AcceptedBatch(e) ==
  /\ events[e].at.kind = "NodesBatchUpdated"
  /\ PassesFilters(events[e].b)
  /\ ~events[e].at.saving

\* C6: for a NodesBatchUpdated with at least one brand-new node and a patch for
\* the existing active edit node, once the handler and its nextTick callback
\* have run every new node is in the store, a render has been invoked, and the
\* active edit node's store label is the one it had (stated for the batches
\* that pass the filters and arrive while no save is in flight).
C6_Claim ==
  (/\ last.kind = "batchTick"
   /\ AcceptedBatch(last.evt)
   /\ NewIds(last.evt) # {}
   /\ LastEvent.at.editing \in IdsOf(LastEvent.b.nodes)) =>
    /\ NewIds(last.evt) \subseteq IdsOf(nodes)
    /\ \E c \in calls : c.evt = last.evt /\ c.op = "render"
    /\ LabelOf(nodes, LastEvent.at.editing) =
         LabelOf(LastEvent.at.nodes, LastEvent.at.editing)

\* the edges of batch e that lead to one of its new nodes
NewNodeEdges(e) ==
  {events[e].b.edges[i] : i \in {j \in 1..Len(events[e].b.edges) :
                                   events[e].b.edges[j].target \in NewIds(e)}}

\* event e is an accepted batch carrying a new node and an edge to it, that
\* arrived while nothing was being edited
C7_Case(e) ==
  /\ AcceptedBatch(e)
  /\ events[e].at.editing = Null
  /\ NewNodeEdges(e) # {}

InStore(edge) == \E i \in 1..Len(edges) : edges[i] = edge

\* C7 as stated: with no active edit and not saving, a NodesBatchUpdated with a
\* new node n and an edge p->n results in n and p->n being in the store, a
\* forced render occurring, and exactly one snapshot request for the event.
C7_Original ==
  (last.kind = "batchTick" /\ C7_Case(last.evt)) =>
    /\ \A edge \in NewNodeEdges(last.evt) : edge.target \in IdsOf(nodes) /\ InStore(edge)
    /\ \E c \in calls : c.evt = last.evt /\ c.op = "render" /\ c.force
    /\ snapshots[last.evt] = 1

\* C7 amended: the same with the render being one that is requested without
\* the force flag (it runs because no edit is active); the event never gets a
\* second snapshot request.
C7_NewNodeRendered ==
  \A e \in 1..MaxEvents :
    C7_Case(e) =>
      /\ snapshots[e] <= 1
      /\ \A c \in calls : c.evt = e => ~c.force
      /\ (last.kind = "batchTick" /\ last.evt = e) =>
           /\ \A edge \in NewNodeEdges(e) : edge.target \in IdsOf(nodes) /\ InStore(edge)
           /\ \E c \in calls : c.evt = e /\ c.op = "render"
           /\ snapshots[e] = 1

\* C7 witness: the callback of such a batch has run and the new node was not
\* in the renderer before
C7_Witness ==
  /\ last.kind = "batchTick"
  /\ C7_Case(last.evt)
  /\ last.outcome = "rendered"
  /\ \E edge \in NewNodeEdges(last.evt) : ~HasNode(LastEvent.at.nodes, edge.target)

----------------------------------------------------------------------------
(* Properties of handleRealtimeNodesDeleted *)

\* C8: processing the NodesDeleted event that has just been processed a second
\* time leaves nodes, edges and the order index as they are, and no edge of the
\* store has a removed id as its source or target.
C8_DeleteIdempotent ==
  (last.kind = "NodesDeleted" /\ last.outcome = "applied") =>
    /\ DeleteNodes(nodes, LastEvent.d.node_ids) = nodes
    /\ DeleteEdges(edges, LastEvent.d.node_ids) = edges
    /\ DeleteOrder(nodeCreationOrder, LastEvent.d.node_ids) = nodeCreationOrder
    /\ \A i \in 1..Len(edges) :
         edges[i].source \notin LastEvent.d.node_ids /\ edges[i].target \notin LastEvent.d.node_ids

\* C8 witness: a deletion that removed an inner node of the tree, with the
\* edge into it and the edge out of it
C8_Witness ==
  /\ last.kind = "NodesDeleted"
  /\ last.outcome = "applied"
  /\ \E id \in LastEvent.d.node_ids :
       /\ \E i \in 1..Len(LastEvent.at.edges) : LastEvent.at.edges[i].source = id
       /\ \E i \in 1..Len(LastEvent.at.edges) : LastEvent.at.edges[i].target = id
       /\ LastEvent.at.order[id] # Undef
  /\ Len(edges) < Len(LastEvent.at.edges)

----------------------------------------------------------------------------
(* Properties of the position cache *)

\* the nodes reachable from the set `from` through source -> target edges
RECURSIVE Reachable(_, _)
Reachable(from, es) ==
  LET more == from \cup {es[i].target : i \in {j \in 1..Len(es) : es[j].source \in from}}
  IN IF more = from THEN from ELSE Reachable(more, es)

\* the targets event e re-parents, when the handler has applied its edges
MovedBy(e) ==
  IF events[e].at.outcome # "applied" THEN {}
  ELSE IF events[e].at.kind = "NodeUpdated"
    THEN IF events[e].p.edge # Undef THEN {events[e].p.id} ELSE {}
  ELSE IF events[e].at.kind = "NodesBatchUpdated"
    THEN {events[e].b.edges[i].target : i \in 1..Len(events[e].b.edges)}
  ELSE {}

\* C9: once the nextTick callback of a processed re-parenting (a NodeUpdated
\* with an edge, a NodesBatchUpdated with edges) has run, the position cache
\* has no entry for a re-parented target nor for any node reachable from one
\* through the store's edges.
C9_Claim ==
  (last.kind \in {"updateTick", "batchTick"}) =>
    positions \cap Reachable(MovedBy(last.evt), edges) = {}

\* C10: a NodeUpdated that carries an edge invalidates the position of the
\* moved node and of its subtree whatever the edit state: once the handler and
\* the callbacks it scheduled have run (and before any render has refilled the
\* cache) none of them has a cached position (stated for the events that pass
\* the filters and arrive while no save is in flight).
C10_Claim ==
  \A e \in 1..MaxEvents :
    (/\ events[e].at.kind = "NodeUpdated"
     /\ PassesFilters(events[e].p)
     /\ ~events[e].at.saving
     /\ events[e].p.edge # Undef
     /\ ~Pending(e)
     /\ \A c \in calls : c.evt # e) =>
      positions \cap Reachable({events[e].p.id}, edges) = {}

----------------------------------------------------------------------------
(* Properties of the filters *)

HandlerKinds == {"NodeUpdated", "NodesDeleted", "NodesBatchUpdated", "NodeEditing"}

\* the payload of a delivered event
EventPayload(ev) ==
  CASE ev.at.kind = "NodeUpdated"       -> ev.p
    [] ev.at.kind = "NodesDeleted"      -> ev.d
    [] ev.at.kind = "NodesBatchUpdated" -> ev.b
    [] ev.at.kind = "NodeEditing"       -> ev.u

\* the event is for another document, or was authored by the local user
OutOfScope(ev) ==
  \/ EventPayload(ev).entity_name # EntityName
  \/ (IF ev.at.kind = "NodeEditing" THEN ev.u.user_id ELSE EventPayload(ev).modified_by)
       = CurrentUser

\* the part of the state the engine owns or drives, without the history
EngineVars ==
  <<storeVars, sessionVars, rendererVars, taskVars, calls, snapshots, presenceVars, editorVars,
    sizeWrites, socketVars>>

\* C11: for each of the four handlers, an event whose entity_name is not the
\* open document's or whose author is the local user changes nothing: the store's
\* nodes and edges, the order index, the size and position caches, the renderer
\* data, the edit session and the presence map stay as they are, no callback is
\* scheduled, and no render and no snapshot request is issued.
C11_OutOfScopeIgnored ==
  [][(eventsSeen' = eventsSeen + 1 /\ OutOfScope(events'[eventsSeen'])) =>
       UNCHANGED EngineVars]_vars

\* C11 witness: a handler has just returned from an out-of-scope event that
\* names a node the local user is editing
C11_Witness ==
  /\ last.kind \in HandlerKinds
  /\ OutOfScope(LastEvent)
  /\ editingNode = "n1"
  /\ editingNode \in changedNodeIds

\* an in-scope NodeUpdated that carries a node is being delivered in this step
\* while a save is in flight
C12_Case ==
  /\ eventsSeen' = eventsSeen + 1
  /\ events'[eventsSeen'].at.kind = "NodeUpdated"
  /\ events'[eventsSeen'].p.node # "missing"
  /\ ~OutOfScope(events'[eventsSeen'])
  /\ isSaving

\* C12: while a save is in flight, a NodeUpdated for the node under edit is
\* ignored and changes no state; a NodeUpdated for any other node is processed
\* exactly as when no save is in flight: the store takes the merged node, the
\* order index and the parent edge of the payload, and the update callback is
\* scheduled (after the snapshot callback when the node is new).
C12_SavingDropsOnlyEditedNode ==
  [][C12_Case =>
       LET p == events'[eventsSeen'].p
           evt == eventsSeen'
           isNew == ~HasNode(nodes, p.id)
           isNodeSelected == p.id = selectedNode
       IN IF p.id = editingNode
            THEN UNCHANGED EngineVars
            ELSE /\ last'.outcome = "applied"
                 /\ nodes' = UpdateElements(nodes, p, FALSE, isNodeSelected, FALSE)
                 /\ nodeCreationOrder' = SetOrder(nodeCreationOrder, p.id, p.order)
                 /\ edges' = IF p.edge # Undef THEN ReplaceEdge(edges, p.edge, p.id) ELSE edges
                 /\ micro' = (IF isNew THEN <<SnapshotTask(evt)>> ELSE <<>>) \o
                             <<UpdateTask("updateTick", evt, p, isNew, FALSE, isNodeSelected, FALSE)>>
                 /\ UNCHANGED <<sessionVars, rendererVars, timers, awaiting, calls, snapshots,
                                presenceVars>>]_vars

\* C12 witness: with a save in flight and n1 under edit, an update for another
\* node has been applied and has changed that node's label in the store
C12_Witness ==
  /\ last.kind = "NodeUpdated"
  /\ last.outcome = "applied"
  /\ LastEvent.at.saving
  /\ LastEvent.at.editing = "n1"
  /\ LastEvent.p.id = "n2"
  /\ LabelOf(nodes, "n2") = LastEvent.p.label
  /\ LabelOf(nodes, "n2") # LabelOf(LastEvent.at.nodes, "n2")

\* a NodesDeleted or NodesBatchUpdated from another user for the open document
\* has just been handled; it arrived while a save was in flight and none of the
\* nodes it names was the node under edit
C13_Case ==
  /\ last.kind \in {"NodesDeleted", "NodesBatchUpdated"}
  /\ ~OutOfScope(LastEvent)
  /\ LastEvent.at.saving
  /\ LastEvent.at.editing \notin
       (IF last.kind = "NodesDeleted" THEN LastEvent.d.node_ids ELSE IdsOf(LastEvent.b.nodes))

\* C13: while a bulk save is in flight, a NodesDeleted or NodesBatchUpdated none
\* of whose target nodes is the active edit node proceeds normally: on return
\* of the handler the deleted ids are gone from the store and the new nodes of
\* the batch are in it.
C13_Claim ==
  C13_Case =>
    IF last.kind = "NodesDeleted"
      THEN \A id \in LastEvent.d.node_ids : ~HasNode(nodes, id)
      ELSE \A id \in NewIds(last.evt) : HasNode(nodes, id)

----------------------------------------------------------------------------
(* Properties of the deletion handler *)

\* C14: a processed NodesDeleted clears the active edit node if and only if its
\* id is among the deleted ids, and clears the selected node if and only if its
\* id is among the deleted ids; an active edit on a node that is not deleted is
\* left as it is.
C14_Claim ==
  (last.kind = "NodesDeleted" /\ last.outcome = "applied") =>
    /\ editingNode = IF LastEvent.at.editing \in LastEvent.d.node_ids
                       THEN Null ELSE LastEvent.at.editing
    /\ selectedNode = IF LastEvent.at.selected \in LastEvent.d.node_ids
                        THEN Null ELSE LastEvent.at.selected

\* C15: after a NodesDeleted has been processed the dirty set holds none of the
\* removed ids, so it is still empty or equal to {active edit node} when the
\* next remote event is classified.
C15_Claim ==
  (last.kind = "NodesDeleted" /\ last.outcome = "applied") =>
    /\ changedNodeIds \cap LastEvent.d.node_ids = {}
    /\ changedNodeIds = {} \/ changedNodeIds = {editingNode}

----------------------------------------------------------------------------
(* Properties of the edge set *)

\* C16: single-parent invariant. The initial store has at most one incoming
\* edge per target; after any sequence of NodeUpdated, NodesBatchUpdated and
\* NodesDeleted events every edge target of the store still has at most one
\* incoming edge, whatever edges the payloads carry.
C16_Claim ==
  \A i, j \in 1..Len(edges) : edges[i].target = edges[j].target => i = j

----------------------------------------------------------------------------
(* Properties of the history snapshots *)

\* event e was processed and added a node the store did not hold, or was a
\* processed deletion that removed a node
AddsOrRemoves(e) ==
  /\ e <= eventsSeen
  /\ events[e].at.outcome # "ignored"
  /\ \/ events[e].at.kind = "NodeUpdated" /\ ~HasNode(events[e].at.nodes, events[e].p.id)
     \/ events[e].at.kind = "NodesBatchUpdated" /\ NewIds(e) # {}
     \/ /\ events[e].at.kind = "NodesDeleted"
        /\ \E id \in events[e].d.node_ids : HasNode(events[e].at.nodes, id)

\* C17: every processed remote event that adds a node the store did not hold
\* (NodeUpdated or NodesBatchUpdated) or removes a node (NodesDeleted) is
\* followed by a forced snapshot request, also while the local user is editing:
\* from the handler's return on, saveSnapshot(true) has been called for the
\* event or its callback is in the tick queue, and it has been called by the
\* time the queue has drained.
C17_SnapshotFollows ==
  \A e \in 1..MaxEvents :
    AddsOrRemoves(e) =>
      \/ snapshots[e] = 1
      \/ snapshots[e] = 0 /\ \E i \in 1..Len(micro) : micro[i] = SnapshotTask(e)

\* C17 witness: the snapshot was requested for an event that added or removed
\* a node while the local user was editing and stays in the editor
C17_Witness ==
  /\ last.kind = "snapshot"
  /\ AddsOrRemoves(last.evt)
  /\ LastEvent.at.editing # Null
  /\ editingNode = LastEvent.at.editing
  /\ snapshots[last.evt] = 1

----------------------------------------------------------------------------
(* Properties of safeRender *)

\* C18: a soft render (safeRender with force = false) invokes the layout
\* engine's render only if no node is under edit at the moment of the call;
\* otherwise it invokes nothing and reports that it skipped: no render is
\* issued or awaited for the calling event.
C18_SoftRenderSkipsWhileEditing ==
  \A c \in calls :
    (c.op \in {"render", "skipped"} /\ ~c.force) =>
      IF c.editing = Null
        THEN c.op = "render"
        ELSE /\ c.op = "skipped"
             /\ \A r \in calls : r.evt = c.evt => r.op # "render"
             /\ \A t \in awaiting : t.evt # c.evt

\* C18 witness: a soft render was asked for while n1 was under edit, after the
\* renderer had been handed new data
C18_Witness ==
  /\ last.kind \in {"updateTick", "deleteTick", "batchTick"}
  /\ editingNode = "n1"
  /\ Call(last.evt, "skipped", FALSE) \in calls
  /\ Call(last.evt, "setData", FALSE) \in calls

----------------------------------------------------------------------------
(* Properties of the forced render *)

\* restoreEditorState has found the widget again and is past the selection
C19_Case ==
  /\ preservedState # NoState
  /\ restoring \in {"focus", "done"}

\* C19: after a forced render made while an editor is active, once the widget
\* has reappeared its selection is set to the saved (from, to) clamped into
\* [0, new document size], for every saved selection, a collapsed one
\* (from = to) included; and focus is reapplied if and only if the editor was
\* focused before the render: when it was, the widget is focused again or
\* focus() was retried up to its bound, and when it was not, focus() is not called.
C19_Claim ==
  C19_Case =>
    /\ \E i \in 1..Len(editorCalls) :
         /\ editorCalls[i].op = "setTextSelection"
         /\ editorCalls[i].from = Clamp(preservedState.from, editorInstance.docSize)
         /\ editorCalls[i].to = Clamp(preservedState.to, editorInstance.docSize)
    /\ restoring = "done" =>
         IF preservedState.isFocused
           THEN editorInstance.isFocused \/ focusAttempts = MaxFocusAttempts
           ELSE \A i \in 1..Len(editorCalls) : editorCalls[i].op # "focus"

----------------------------------------------------------------------------
(* Properties of the deferred size callbacks *)

\* C20: a deferred size callback whose target node has become the active edit
\* node between its scheduling and any of its resumption points (timer,
\* animation frame, image-load join) abandons its write: no write to the size
\* cache, to the renderer node's rect or to the store's rect is made for a node
\* that is under edit when the write happens.
C20_Claim ==
  \A w \in sizeWrites : w.editing # w.id

----------------------------------------------------------------------------
(* Properties of the deferred callbacks of handleRealtimeNodeUpdate *)

\* C21: the deferred editor-content write scheduled by a NodeUpdated for node n
\* decides with the edit session current when it resumes: if n has become the
\* active edit node after the event was handled, the callback does not replace
\* n's editor content with the remote label.
C21_Claim ==
  \A c \in calls :
    (/\ c.op = "setContent"
     /\ events[c.evt].at.kind = "NodeUpdated"
     /\ events[c.evt].at.editing # events[c.evt].p.id) =>
      c.editing # events[c.evt].p.id

\* C22: the selection and focus restore that follows a forced render looks at
\* the edit session again when it resumes: once the active edit node is no
\* longer the node whose state was preserved (the edit ended or moved on), it
\* sets neither selection nor focus on the old node's widget.
C22_Claim ==
  \A i \in 1..Len(editorCalls) : editorCalls[i].editing = preservedState.nodeId

----------------------------------------------------------------------------
(* Properties of the handling of malformed events *)

\* a required field of the event is missing
Malformed(ev) ==
  \/ ev.at.kind = "NodeUpdated" /\ ev.p.node # "ok"
  \/ ev.at.kind = "NodesDeleted" /\ ev.d.node_ids = {}
  \/ ev.at.kind = "NodesBatchUpdated" /\ ev.b.nodes = <<>>

\* C23: a malformed event (NodeUpdated without node or whose node has no data
\* object, NodesDeleted without a non-empty node_ids, NodesBatchUpdated without
\* a non-empty nodes array) is dropped: the handler schedules nothing and
\* leaves the store as it found it, and no exception is raised.
C23_Claim ==
  (last.kind \in HandlerKinds \cup {"updateTick"} /\ Malformed(LastEvent)) =>
    /\ last.outcome = "ignored"
    /\ nodes = LastEvent.at.nodes
    /\ micro = <<>>

----------------------------------------------------------------------------
(* The second set-content timer in detail (lines 1156-1680): the callback   *)
(* looks for the node's editor container, mounts an editor into an empty    *)
(* one, polls for the editing widget and writes the label into it. What the *)
(* DOM and renderer.getEditorInstance answer at each poll is the            *)
(* environment's choice.                                                    *)

\* number of events whose set-content timer is pending
PollEvents == 2

\* checkEditorReady: const maxAttempts = 20 (line 1204)
CheckMaxAttempts == 20

\* checkAndSetContent: const maxAttempts = 5 (line 1427)
SetMaxAttempts == 5

\* renderer.getEditorInstance(id): nothing, a destroyed instance, an instance
\* without a view, or a usable one
Widgets == {"null", "destroyed", "noView", "ready"}

\* editorInstance && !editorInstance.isDestroyed && editorInstance.view
Usable(w) == w = "ready"

\* the .node-editor-container of the node group: no such element, an element
\* without children, an element with children
Containers == {"absent", "empty", "filled"}

PollTask(kind, evt, id, label) ==
  [kind |-> kind, evt |-> evt, p |-> [id |-> id, label |-> label],
   isNodeBeingEdited |-> FALSE, attempts |-> 0, inst |-> "null"]

\* two NodeUpdated events, the first for n1 (with or without a label), the
\* second for n1 or n2, were handled in this order while no node was under edit
\* or selected, and were rendered; their set-content timers are pending
PollInit ==
  \E l1 \in {"x", ""}, id2 \in EditIds :
    /\ nodes = SetLabel(SetLabel(Chain2Nodes, "n1", l1), id2, "y")
    /\ edges = Chain2Edges
    /\ nodeCreationOrder = [n \in NodeIds |-> IF n \in IdsOf(Chain2Nodes) THEN "o1" ELSE Undef]
    /\ rnodes = nodes
    /\ redges = Chain2Edges
    /\ nodeSizeCache = [n \in NodeIds |-> IF n \in IdsOf(Chain2Nodes) THEN "r1" ELSE Undef]
    /\ positions = IdsOf(Chain2Nodes)
    /\ editorContent = [n \in NodeIds |->
                          IF n \in IdsOf(Chain2Nodes) THEN LabelOf(Chain2Nodes, n) ELSE NoEditor]
    /\ selectedNode = Null
    /\ editingNode = Null
    /\ changedNodeIds = {}
    /\ timeSinceEditStart = GraceMs
    /\ isSaving = FALSE
    /\ nodeEditingUsers = [n \in NodeIds |-> Undef]
    /\ badges = {}
    /\ micro = <<>>
    /\ timers = {PollTask("setContent", 1, "n1", l1), PollTask("setContent", 2, id2, "y")}
    /\ awaiting = {}
    /\ calls = {}
    /\ snapshots = [e \in 1..PollEvents |-> 0]
    /\ events = [e \in 1..PollEvents |-> [at |-> NoLast, inst |-> "pending"]]
    /\ eventsSeen = PollEvents
    /\ last = NoLast
    /\ editorInstance = Unmounted
    /\ preservedState = NoState
    /\ restoring = "none"
    /\ attempts = 0
    /\ focusAttempts = 0
    /\ editorCalls = <<>>
    /\ sizeWrites = {}
    /\ RealTimeHandlerInit

PollUnchanged ==
  /\ UNCHANGED <<storeVars, sessionVars, rnodes, redges, nodeSizeCache, positions, awaiting,
                 snapshots, eventsSeen>>
  /\ UNCHANGED presenceVars
  /\ UNCHANGED editorVars
  /\ UNCHANGED <<sizeWrites, socketVars>>

\* checkEditorReady's check() (lines 1206-1228): resolve with the widget when it
\* and the container are there, poll again after 50 ms up to maxAttempts times,
\* then resolve(null)
Check(t, w, containerHasChildren) ==
  IF Usable(w) /\ containerHasChildren
    THEN [micro |-> <<[t EXCEPT !.kind = "readyThen", !.inst = w]>>, timers |-> {}]
  ELSE IF t.attempts < CheckMaxAttempts
    THEN [micro |-> <<>>, timers |-> {[t EXCEPT !.kind = "check", !.attempts = @ + 1]}]
  ELSE [micro |-> <<[t EXCEPT !.kind = "readyThen", !.inst = "null"]>>, timers |-> {}]

\* proceedWithSetContent (lines 1199-1234): checkEditorReady() makes its first
\* check at once
ProceedWithSetContent(t, w, containerHasChildren) ==
  LET c == Check([t EXCEPT !.attempts = 0], w, containerHasChildren)
  IN /\ micro' = micro \o c.micro
     /\ timers' = (timers \ {t}) \cup c.timers

\* lines 1157-1196 and 1421-1441: an empty container gets an editor mounted and
\* the callback waits 200 ms; otherwise checkAndSetContent starts, and returns at
\* once when the widget is usable. The timers of the two events were set in the
\* order of the events with the same delay, so they fire in that order
SetContentBody(t) ==
  /\ Idle
  /\ t \in timers
  /\ t.kind = "setContent"
  /\ \A u \in timers : u.kind = "setContent" => u.evt >= t.evt
  /\ \E container \in Containers, w \in Widgets :
       IF container = "empty"
         THEN /\ timers' = IF HasNode(rnodes, t.p.id)
                             THEN (timers \ {t}) \cup {[t EXCEPT !.kind = "afterMount"]}
                             ELSE timers \ {t}
              /\ editorContent' = IF HasNode(rnodes, t.p.id)
                                    THEN [editorContent EXCEPT ![t.p.id] = LabelToSet(t)]
                                    ELSE editorContent
              /\ UNCHANGED micro
         ELSE /\ timers' = timers \ {t}
              /\ micro' = <<[t EXCEPT !.kind = IF Usable(w) THEN "setThen" ELSE "pollTick",
                                      !.inst = w]>>
              /\ UNCHANGED editorContent
  /\ last' = NoLast
  /\ UNCHANGED <<calls, events>>
  /\ PollUnchanged

\* checkAndSetContent, one turn of the loop (lines 1429-1436): after nextTick the
\* widget is read again; below maxAttempts the function sleeps 50 ms, at
\* maxAttempts the loop ends and the function returns what it read
CheckAndSetContentTick ==
  /\ micro # <<>>
  /\ Head(micro).kind = "pollTick"
  /\ \E w \in Widgets :
       LET t == [Head(micro) EXCEPT !.inst = w, !.attempts = @ + 1]
       IN IF t.attempts < SetMaxAttempts
            THEN /\ timers' = timers \cup {[t EXCEPT !.kind = "pollWait"]}
                 /\ micro' = Tail(micro)
            ELSE /\ micro' = Tail(micro) \o <<[t EXCEPT !.kind = "setThen"]>>
                 /\ UNCHANGED timers
  /\ last' = NoLast
  /\ UNCHANGED <<editorContent, calls, events>>
  /\ PollUnchanged

\* the 50 ms sleep is over (line 1434): the loop condition is evaluated on the
\* widget read before the sleep
CheckAndSetContentWait(t) ==
  /\ Idle
  /\ t \in timers
  /\ t.kind = "pollWait"
  /\ timers' = timers \ {t}
  /\ micro' = <<[t EXCEPT !.kind = IF Usable(t.inst) THEN "setThen" ELSE "pollTick"]>>
  /\ last' = NoLast
  /\ UNCHANGED <<editorContent, calls, events>>
  /\ PollUnchanged

\* the write of lines 1457-1578 (and 1235-1262): no label, no write; the same
\* content is written again unless the closure's isNodeBeingEdited is set
Written(t) ==
  IF LabelToSet(t) = "" THEN "skipped"
  ELSE IF editorContent[t.p.id] = LabelToSet(t) /\ t.isNodeBeingEdited THEN "skipped"
  ELSE "written"

\* checkAndSetContent().then(...) (lines 1441-1578): without an instance the
\* callback builds its warning from maxAttempts, a constant of
\* checkAndSetContent that is not in scope here (ReferenceError); a destroyed
\* instance or one without a view is given up with a warning; a usable one is
\* written
CheckAndSetContentThen ==
  /\ micro # <<>>
  /\ Head(micro).kind = "setThen"
  /\ LET t == Head(micro)
         outcome == IF t.inst = "null" THEN "threw"
                    ELSE IF ~Usable(t.inst) THEN "abandoned"
                    ELSE Written(t)
     IN /\ editorContent' = IF outcome = "written"
                              THEN [editorContent EXCEPT ![t.p.id] = LabelToSet(t)]
                              ELSE editorContent
        /\ calls' = calls \cup IF outcome = "written" THEN {Call(t.evt, "setContent", FALSE)} ELSE {}
        /\ events' = [events EXCEPT ![t.evt].inst = t.inst]
        /\ last' = Ran("setThen", t.evt, outcome)
  /\ micro' = Tail(micro)
  /\ UNCHANGED timers
  /\ PollUnchanged

\* 200 ms after the mount (lines 1356-1418): without a Vue app the callback
\* returns; a container that is still empty is looked at again 150 ms later
AfterMount(t) ==
  /\ Idle
  /\ t \in timers
  /\ t.kind = "afterMount"
  /\ \E vueAppEntry \in BOOLEAN, container \in Containers, w \in Widgets :
       IF ~vueAppEntry
         THEN timers' = timers \ {t} /\ UNCHANGED micro
       ELSE IF container # "filled"
         THEN timers' = (timers \ {t}) \cup {[t EXCEPT !.kind = "recheck"]} /\ UNCHANGED micro
       ELSE ProceedWithSetContent(t, w, TRUE)
  /\ last' = NoLast
  /\ UNCHANGED <<editorContent, calls, events>>
  /\ PollUnchanged

\* lines 1371-1414: a container that is still empty gets the editor mounted
\* again, a container that is gone ends the callback
RecheckContainer(t) ==
  /\ Idle
  /\ t \in timers
  /\ t.kind = "recheck"
  /\ \E container \in Containers, w \in Widgets :
       CASE container = "filled" ->
              /\ ProceedWithSetContent(t, w, TRUE)
              /\ UNCHANGED editorContent
         [] container = "empty" ->
              /\ timers' = (timers \ {t}) \cup {[t EXCEPT !.kind = "afterRemount"]}
              /\ editorContent' = [editorContent EXCEPT ![t.p.id] = LabelToSet(t)]
              /\ UNCHANGED micro
         [] OTHER ->
              /\ timers' = timers \ {t}
              /\ UNCHANGED <<micro, editorContent>>
  /\ last' = NoLast
  /\ UNCHANGED <<calls, events>>
  /\ PollUnchanged

\* lines 1395-1406: 100 ms after the second mount
AfterRemount(t) ==
  /\ Idle
  /\ t \in timers
  /\ t.kind = "afterRemount"
  /\ \E retryHasChildren \in BOOLEAN, w \in Widgets :
       IF retryHasChildren
         THEN ProceedWithSetContent(t, w, TRUE)
         ELSE timers' = timers \ {t} /\ UNCHANGED micro
  /\ last' = NoLast
  /\ UNCHANGED <<editorContent, calls, events>>
  /\ PollUnchanged

\* setTimeout(check, 50) fires (line 1218)
CheckEditorReady(t) ==
  /\ Idle
  /\ t \in timers
  /\ t.kind = "check"
  /\ \E containerHasChildren \in BOOLEAN, w \in Widgets :
       LET c == Check(t, w, containerHasChildren)
       IN /\ micro' = c.micro
          /\ timers' = (timers \ {t}) \cup c.timers
  /\ last' = NoLast
  /\ UNCHANGED <<editorContent, calls, events>>
  /\ PollUnchanged

\* checkEditorReady().then(...) (lines 1234-1353): a usable instance is written
\* inside try/catch, anything else is given up with a warning
CheckEditorReadyThen ==
  /\ micro # <<>>
  /\ Head(micro).kind = "readyThen"
  /\ LET t == Head(micro)
         outcome == IF ~Usable(t.inst) THEN "abandoned"
                    ELSE IF LabelToSet(t) = "" THEN "skipped" ELSE "written"
     IN /\ editorContent' = IF outcome = "written"
                              THEN [editorContent EXCEPT ![t.p.id] = LabelToSet(t)]
                              ELSE editorContent
        /\ calls' = calls \cup IF outcome = "written" THEN {Call(t.evt, "setContent", FALSE)} ELSE {}
        /\ events' = [events EXCEPT ![t.evt].inst = t.inst]
        /\ last' = Ran("readyThen", t.evt, outcome)
  /\ micro' = Tail(micro)
  /\ UNCHANGED timers
  /\ PollUnchanged

PollNext ==
  \/ \E t \in timers : SetContentBody(t)
  \/ CheckAndSetContentTick
  \/ \E t \in timers : CheckAndSetContentWait(t)
  \/ CheckAndSetContentThen
  \/ \E t \in timers : AfterMount(t)
  \/ \E t \in timers : RecheckContainer(t)
  \/ \E t \in timers : AfterRemount(t)
  \/ \E t \in timers : CheckEditorReady(t)
  \/ CheckEditorReadyThen

PollSpec == PollInit /\ [][PollNext]_vars

\* C24: when the editing widget of the event's node is still unavailable after
\* the bounded polling, the callback gives the content write up without an
\* exception, and nothing of the event is left to run; the widget keeps its
\* content.
C24_Claim ==
  (last.kind \in {"setThen", "readyThen"} /\ ~Usable(LastEvent.inst)) =>
    /\ last.outcome = "abandoned"
    /\ \A t \in timers : t.evt # last.evt
    /\ \A c \in calls : c.evt # last.evt

\* C25: for a NodeUpdated whose target is the selected node and not the active
\* edit node, the store label of the target is unchanged when the handler
\* returns, whatever the local label is (the empty label included), and the
\* completed flag and the rect of the event are merged into the store.
C25_Claim ==
  (/\ last.kind = "NodeUpdated"
   /\ last.outcome # "ignored"
   /\ LastEvent.p.node = "ok"
   /\ LastEvent.p.id = LastEvent.at.selected
   /\ LastEvent.p.id # LastEvent.at.editing
   /\ HasNode(LastEvent.at.nodes, LastEvent.p.id)) =>
    /\ LabelOf(nodes, LastEvent.p.id) = LabelOf(LastEvent.at.nodes, LastEvent.p.id)
    /\ LastEvent.p.completed # Undef =>
         CompletedOf(nodes, LastEvent.p.id) = LastEvent.p.completed
    /\ LastEvent.p.rect # Undef => RectOf(nodes, LastEvent.p.id) = LastEvent.p.rect

\* C26: for a NodeUpdated whose target is the active edit node and whose text
\* is not merged (the node is dirty, or the grace window is over), the
\* non-text fields of the event are still written into the store: the
\* completed flag when the event carries one, and the rect when it carries
\* one, also when it carries no completed flag.
C26_Claim ==
  (/\ last.kind = "NodeUpdated"
   /\ last.outcome # "ignored"
   /\ LastEvent.p.node = "ok"
   /\ LastEvent.p.id = LastEvent.at.editing
   /\ HasNode(LastEvent.at.nodes, LastEvent.p.id)
   /\ \/ LastEvent.p.id \in LastEvent.at.dirty
      \/ LastEvent.at.elapsed >= GraceMs) =>
    /\ LastEvent.p.completed # Undef =>
         CompletedOf(nodes, LastEvent.p.id) = LastEvent.p.completed
    /\ LastEvent.p.rect # Undef => RectOf(nodes, LastEvent.p.id) = LastEvent.p.rect

\* C27: a batch is classified node by node: when every node of an in-scope
\* batch, delivered while no save is in flight, is the active edit node or the
\* selected node, the completed flag (and the rect) of each patch is still
\* merged into the store.
C27_Claim ==
  (/\ last.kind = "NodesBatchUpdated"
   /\ PassesFilters(LastEvent.b)
   /\ ~LastEvent.at.saving
   /\ LastEvent.b.nodes # <<>>
   /\ \A id \in IdsOf(LastEvent.b.nodes) :
        id = LastEvent.at.editing \/ id = LastEvent.at.selected) =>
    \A i \in 1..Len(LastEvent.b.nodes) :
      LET r == LastEvent.b.nodes[i]
      IN /\ r.completed # Undef => CompletedOf(nodes, r.id) = r.completed
         /\ r.rect # Undef => RectOf(nodes, r.id) = r.rect

\* C28: whenever a step changes the size of a node (its entry in the size cache
\* or the rect of its store node), the position cache holds, after the step,
\* no entry for the node nor for any of its descendants.
C28_Claim ==
  [][\A id \in NodeIds :
       (nodeSizeCache'[id] # nodeSizeCache[id] \/ RectOf(nodes', id) # RectOf(nodes, id)) =>
         ClearSubtree(id, [ok |-> TRUE, pos |-> positions'], edges).pos = positions']_vars

\* C30: in the step that completes the size recalculation of node n (the
\* animation frame after the size was written), no render is invoked exactly
\* when n itself is under edit; otherwise a render is invoked, and it is a
\* forced one when some other node is under edit.
C30_Claim ==
  [][\A t \in timers \ timers' :
       t.kind = "sizeRefresh" =>
         IF editingNode = t.id
           THEN \A c \in calls' \ calls : c.op # "render"
           ELSE \E c \in calls' :
                  /\ c.op = "render"
                  /\ c.editing = editingNode
                  /\ c.force = (editingNode # Null)]_vars

\* C29: when two NodeUpdated events e1 and e2 for the same node, which is
\* neither under edit nor selected, were handled in this order and both have
\* written the node's editing widget, then once no callback of either is left
\* the store label, the renderer's label and the widget's content all equal the
\* label of e2, whatever the order in which the timers fired.
C29_Claim ==
  (/\ timers = {}
   /\ micro = <<>>
   /\ \A e \in 1..PollEvents : \E c \in calls : c.evt = e /\ c.op = "setContent"
   /\ LabelOf(nodes, "n1") = "y") =>
    /\ LabelOf(rnodes, "n1") = "y"
    /\ editorContent["n1"] = "y"

\* C31: starting from a store in which every node has a creation order, every
\* node present in the store has an entry in the insertion-order index after
\* any sequence of remote events, also a node that was added by a NodeUpdated
\* or a NodesBatchUpdated without an order field.
C31_Claim == \A id \in IdsOf(nodes) : nodeCreationOrder[id] # Undef

\* C32: whenever a handler path triggers the layout engine's re-layout while a
\* local edit is active and its widget is open, by setData or by render, the
\* focus flag and the selection of the widget have been snapshotted before
\* that call.
C32_Claim ==
  \A c \in calls :
    (c.op \in {"setData", "render"} /\ c.editing # Null /\ c.mounted) =>
      c.snapshot # NoState

\* C33: an accepted NodesBatchUpdated that brings no new node and names neither
\* the active edit node nor the selected node leads to a render being invoked
\* by its nextTick callback (when the callback runs to its end), also when the
\* local user is editing some other node.
C33_Claim ==
  (/\ last.kind = "batchTick"
   /\ last.outcome # "overflow"
   /\ AcceptedBatch(last.evt)
   /\ LastEvent.b.nodes # <<>>
   /\ NewIds(last.evt) = {}
   /\ LastEvent.at.editing \notin IdsOf(LastEvent.b.nodes)
   /\ LastEvent.at.selected \notin IdsOf(LastEvent.b.nodes)) =>
    \E c \in calls : c.evt = last.evt /\ c.op = "render"

----------------------------------------------------------------------------
(* The polling loops together: the restore after a forced render and the    *)
(* two waits of the set-content timer                                       *)

LoopInit == RestoreInit \/ PollInit

LoopNext == RestoreNext \/ PollNext

LoopSpec == LoopInit /\ [][LoopNext]_vars

\* C34: every polling loop stays within its attempt budget, also when the
\* widget never becomes available or never takes the focus: the restore makes
\* at most MaxAttempts (10) widget polls, polling on only below that number,
\* and at most MaxFocusAttempts (3) focus attempts; checkEditorReady schedules
\* at most CheckMaxAttempts (20) re-polls; checkAndSetContent sleeps or polls
\* again only below SetMaxAttempts (5) attempts and returns with at most 5.
C34_LoopsBounded ==
  /\ attempts <= MaxAttempts
  /\ restoring = "poll" => attempts < MaxAttempts
  /\ focusAttempts <= MaxFocusAttempts
  /\ \A t \in timers :
       /\ t.kind = "check" => t.attempts <= CheckMaxAttempts
       /\ t.kind = "pollWait" => t.attempts < SetMaxAttempts
  /\ \A i \in 1..Len(micro) :
       /\ micro[i].kind = "pollTick" => micro[i].attempts < SetMaxAttempts
       /\ micro[i].kind = "setThen" => micro[i].attempts <= SetMaxAttempts
       /\ micro[i].kind = "readyThen" => micro[i].attempts <= CheckMaxAttempts

\* C34 witness: the widget never came back after the forced render and the
\* restore gave up with its budget of polls used up
C34_Witness ==
  /\ restoring = "gaveUp"
  /\ attempts = MaxAttempts
  /\ ~editorInstance.mounted

\* C35: node ids stay unique in the store: after any sequence of NodeUpdated
\* and NodesBatchUpdated events, a batch that lists the same new id more than
\* once included, no two node elements of the store share an id.
C35_Claim ==
  \A i, j \in 1..Len(nodes) : nodes[i].id = nodes[j].id => i = j

\* C36: the subtree invalidation of the position cache (clearChildrenPositions)
\* comes to an end by itself for every edge set that remote events can
\* produce, an edge set in which re-parenting edges have closed a cycle
\* included: no callback ends in the unbounded recursion.
C36_Claim ==
  last.kind \in {"updateTick", "batchTick"} => last.outcome # "overflow"

\* C37: a handled NodeUpdated that carries an edge always applies the
\* structural change: when the handler returns, the event's edge is the only
\* edge of the store into its target, whether or not the target node is under
\* active edit.
C37_Claim ==
  (/\ last.kind = "NodeUpdated"
   /\ last.outcome # "ignored"
   /\ LastEvent.p.edge # Undef) =>
    SelectSeq(edges, LAMBDA e : e.target = LastEvent.p.id) =
      <<Edge(LastEvent.p.edge, LastEvent.p.id)>>

\* C38: for a NodeUpdated whose target is selected but not edited, the display
\* stays consistent with the store: once every callback of the event has run
\* (the edit session being what it was on arrival), the content of the node's
\* editing widget equals the store label of the node.
C38_Claim ==
  \A e \in 1..MaxEvents :
    (/\ events[e].at.kind = "NodeUpdated"
     /\ events[e].at.outcome = "applied"
     /\ events[e].p.node = "ok"
     /\ events[e].p.id = events[e].at.selected
     /\ events[e].p.id # events[e].at.editing
     /\ HasNode(events[e].at.nodes, events[e].p.id)
     /\ ~Pending(e)
     /\ editingNode = events[e].at.editing
     /\ selectedNode = events[e].at.selected
     /\ changedNodeIds = events[e].at.dirty
     /\ editorContent[events[e].p.id] # NoEditor) =>
      editorContent[events[e].p.id] = LabelOf(nodes, events[e].p.id)

\* the remote editors of node n that have announced is_editing=true and have
\* not announced is_editing=false since: "peer" announced n2 before the first
\* state; a delivered presence event of this document adds or removes its author
StillEditing(n) ==
  LET before == IF n = "n2" THEN {"peer"} ELSE {}
  IN IF eventsSeen >= 1 /\ events[1].at.kind = "NodeEditing"
          /\ events[1].at.outcome = "applied" /\ events[1].u.node_id = n
       THEN IF events[1].u.is_editing THEN before \cup {events[1].u.user_id}
            ELSE before \ {events[1].u.user_id}
       ELSE before

\* every node of the store that a remote peer is still editing has an entry
EntryForEveryEditedNode ==
  \A n \in IdsOf(nodes) : StillEditing(n) # {} => nodeEditingUsers[n] # Undef

\* an applied NodesDeleted leaves no entry for the ids it names
NoEntryForDeletedNode ==
  (last.kind = "NodesDeleted" /\ last.outcome = "applied") =>
       \A n \in LastEvent.d.node_ids : nodeEditingUsers[n] = Undef

\* C39: the presence map has an entry for every node that some remote peer is
\* still editing (a stop of one peer does not remove the entry of another
\* peer), and a NodesDeleted event leaves no entry for a node it removed.
C39_Claim == EntryForEveryEditedNode /\ NoEntryForDeletedNode
----------------------------------------------------------------------------
(* RealTimeHandler (src/frontend/src/socket.ts, lines 227-289) *)

MaxEmits == 3

Doctypes == {"Drive Mindmap", "Drive File"}
Docnames == {"d1", "d2"}

\* `${doctype}:${docname}`
DocKey(doctype, docname) == doctype \o ":" \o docname

\* this.socket.emit(event, doctype, docname); `open` records whether the
\* document was in open_docs when the message was sent
Emit(event, doctype, docname) ==
  Append(emitted, [event |-> event, doctype |-> doctype, docname |-> docname,
                   open |-> DocKey(doctype, docname) \in open_docs])

Called(kind, doctype, docname, outcome) ==
  [kind |-> kind, key |-> DocKey(doctype, docname),
   wasOpen |-> DocKey(doctype, docname) \in open_docs, outcome |-> outcome]

SocketUnchanged ==
  UNCHANGED <<storeVars, sessionVars, rendererVars, micro, awaiting, ghostVars, presenceVars,
              eventsSeen, editorVars, sizeWrites>>

\* lines 254-272
doc_subscribe(doctype, docname) ==
  /\ Idle
  /\ Len(emitted) < MaxEmits
  /\ IF subscribing
       THEN /\ last' = Called("doc_subscribe", doctype, docname, "throttled")
            /\ UNCHANGED <<socketVars, timers>>
       ELSE IF DocKey(doctype, docname) \in open_docs
         THEN /\ last' = Called("doc_subscribe", doctype, docname, "open")
              /\ UNCHANGED <<socketVars, timers>>
         ELSE /\ subscribing' = TRUE
              /\ timers' = timers \cup {[kind |-> "throttle"]}
              /\ emitted' = Emit("doc_subscribe", doctype, docname)
              /\ open_docs' = open_docs \cup {DocKey(doctype, docname)}
              /\ last' = Called("doc_subscribe", doctype, docname, "emitted")
  /\ SocketUnchanged

\* lines 266-268: the callback of the 1 s timer
ThrottleExpires ==
  /\ Idle
  /\ [kind |-> "throttle"] \in timers
  /\ timers' = timers \ {[kind |-> "throttle"]}
  /\ subscribing' = FALSE
  /\ last' = [kind |-> "throttle"]
  /\ UNCHANGED <<open_docs, emitted>>
  /\ SocketUnchanged

\* lines 273-276
doc_unsubscribe(doctype, docname) ==
  /\ Idle
  /\ Len(emitted) < MaxEmits
  /\ emitted' = Emit("doc_unsubscribe", doctype, docname)
  /\ open_docs' = open_docs \ {DocKey(doctype, docname)}
  /\ last' = Called("doc_unsubscribe", doctype, docname, "emitted")
  /\ UNCHANGED <<subscribing, timers>>
  /\ SocketUnchanged

SocketNext ==
  \/ \E doctype \in Doctypes, docname \in Docnames : doc_subscribe(doctype, docname)
  \/ \E doctype \in Doctypes, docname \in Docnames : doc_unsubscribe(doctype, docname)
  \/ ThrottleExpires

SocketSpec == Init /\ [][SocketNext]_vars

\* no doc_subscribe message was sent for a document that was in open_docs
NoSubscribeForOpenDoc ==
  \A i \in 1..Len(emitted) : emitted[i].event = "doc_subscribe" => ~emitted[i].open

\* C40: a doc_subscribe call for a document that is not in open_docs leads to
\* the doc_subscribe message and to the document's membership in open_docs,
\* also when the call falls into the throttle window of an earlier subscribe
\* (the handler keeps no record of a call once it has returned, the only
\* pending callback being the throttle reset, so the call has led to them when
\* it returns or never does); and no doc_subscribe message is sent for a
\* document that is in open_docs.
C40_Claim ==
  /\ (last.kind = "doc_subscribe" /\ ~last.wasOpen) => last.key \in open_docs
  /\ NoSubscribeForOpenDoc
====
